---- MODULE Spec2Model ----
(***************************************************************************)
(* Model of the fitness assessment calculation engine                      *)
(* (src/backend/app/logic.py), of the progress and body-measurement        *)
(* computations and of the JSON client store                               *)
(* (src/backend/app/client_service.py, db_service.py).                     *)
(*                                                                         *)
(* The engine is a library of pure functions.  Each function is an         *)
(* operator computed the way the code computes it, and each public         *)
(* function has one action: `call` holds the function called and its       *)
(* arguments, drawn from bounded sets, and the action records in `ret`     *)
(* what the function returns or raises.                                    *)
(*                                                                         *)
(* Python floats are modelled as exact rationals [n |-> numerator,         *)
(* d |-> positive denominator]; comparisons cross-multiply.  The sample    *)
(* measurements are chosen so that the float computation and the exact     *)
(* one agree (no exact ties and no exact boundary hits reached through an  *)
(* inexact float operation).                                               *)
(***************************************************************************)
EXTENDS Integers, Sequences, FiniteSets, TLC

VARIABLES call, ret, clients_file, clock, saved, tasks, db, coaches_file

\* The JSON client store: the file, the time of day, and the results each
\* client's successful save_assessment calls were given, newest first.
store == <<clients_file, clock, saved>>

\* The database and the second JSON file its first start reads.
database == <<db, coaches_file>>

vars == <<call, ret, clients_file, clock, saved, tasks, db, coaches_file>>

----------------------------------------------------------------------------
(* Rational arithmetic standing in for Python floats.                      *)

Rat(n, d) == [n |-> n, d |-> d]

R(n) == Rat(n, 1)

Lt(a, b) == a.n * b.d < b.n * a.d

Le(a, b) == a.n * b.d <= b.n * a.d

\* a / b for b # 0, the denominator kept positive.
Div(a, b) ==
    IF b.n > 0 THEN Rat(a.n * b.d, a.d * b.n)
    ELSE Rat(0 - a.n * b.d, 0 - a.d * b.n)

Mul(a, b) == Rat(a.n * b.n, a.d * b.d)

Ge(a, b) == Le(b, a)

Gt(a, b) == Lt(b, a)

EqR(a, b) == a.n * b.d = b.n * a.d

Sub(a, b) == Rat(a.n * b.d - b.n * a.d, a.d * b.d)

Add(a, b) == Rat(a.n * b.d + b.n * a.d, a.d * b.d)

Pow10(k) == IF k = 0 THEN 1 ELSE IF k = 1 THEN 10 ELSE IF k = 2 THEN 100 ELSE 1000

\* Python's round(x, ndigits): nearest multiple of 10^-ndigits, exact ties to
\* the even neighbour.
Round(x, ndigits) ==
    LET den == Pow10(ndigits)
        num == x.n * den
        q   == num \div x.d
        r   == num % x.d
        up  == \/ 2 * r > x.d
               \/ 2 * r = x.d /\ q % 2 = 1
    IN  Rat(IF up THEN q + 1 ELSE q, den)

\* None in the place of an Optional[float]: the only value with denominator 0.
None == [n |-> 0, d |-> 0]

\* Python truthiness of an Optional[float]: None and 0.0 are falsy.

Truthy(x) == x # None /\ x.n # 0

----------------------------------------------------------------------------
(* Return values and raised exceptions.                                    *)

Return(v) == [kind |-> "return", val |-> v]

Raise(e) == [kind |-> "raise", val |-> e]

\* An exception: its class and the parts interpolated into its message.
ValueError(msg) == [type |-> "ValueError", msg |-> msg]

KeyError(key) == [type |-> "KeyError", msg |-> <<key>>]

----------------------------------------------------------------------------
(* Rating tiers.                                                           *)

\* Best-first scan order of the tier keys.
_RATING_ORDER == <<"excellent", "very_good", "good", "fair", "poor">>

Tiers == {_RATING_ORDER[i] : i \in 1..Len(_RATING_ORDER)}

_RATING_DISPLAY ==
    [excellent |-> "Excellent", very_good |-> "Very Good", good |-> "Good",
     fair |-> "Fair", poor |-> "Poor"]

Ratings == {_RATING_DISPLAY[t] : t \in Tiers}

----------------------------------------------------------------------------
(* get_age_bracket                                                         *)

\* A slip at the decade boundaries: age 30 stays in "20-29", and so on.
get_age_bracket_offByOne(age) ==
    IF age <= 30 THEN "20-29"
    ELSE IF age <= 40 THEN "30-39"
    ELSE IF age <= 50 THEN "40-49"
    ELSE IF age <= 60 THEN "50-59"
    ELSE "60-69"

get_age_bracket(age) ==
    IF age < 30 THEN "20-29"
    ELSE IF age < 40 THEN "30-39"
    ELSE IF age < 50 THEN "40-49"
    ELSE IF age < 60 THEN "50-59"
    ELSE "60-69"

----------------------------------------------------------------------------
(* get_rating                                                              *)

\* A slip in the comparison: the boundary itself is excluded.
TierMet_exclusive(value, threshold, inverted) ==
    IF inverted THEN Lt(value, threshold) ELSE Gt(value, threshold)

\* A slip in the comparison: the inverted flag is not consulted.
TierMet_flagIgnored(value, threshold, inverted) ==
    Le(value, threshold)

\* The condition of one tier: value <= threshold for an inverted test,
\* value >= threshold otherwise.
TierMet(value, threshold, inverted) ==
    IF inverted THEN Le(value, threshold) ELSE Ge(value, threshold)

\* The loop of get_rating from position i of _RATING_ORDER on.  thresholds[tier]
\* on a table without that key raises KeyError.
RECURSIVE RatingScan(_, _, _, _)
RatingScan(value, thresholds, inverted, i) ==
    IF i > Len(_RATING_ORDER) THEN Return(_RATING_DISPLAY["poor"])
    ELSE LET tier == _RATING_ORDER[i] IN
         IF tier \notin DOMAIN thresholds THEN Raise(KeyError(tier))
         ELSE IF TierMet(value, thresholds[tier], inverted)
              THEN Return(_RATING_DISPLAY[tier])
              ELSE RatingScan(value, thresholds, inverted, i + 1)

\* A slip in the loop: the scan starts at the second tier.
get_rating_skipFirst(value, thresholds, inverted) ==
    RatingScan(value, thresholds, inverted, 2)

get_rating(value, thresholds, inverted) ==
    RatingScan(value, thresholds, inverted, 1)

----------------------------------------------------------------------------
(* classify_bmi, classify_whr                                              *)

\* A slip at a boundary: 23.0 itself still counts as Excellent.
classify_bmi_inclusive(bmi) ==
    IF Lt(bmi, Rat(185, 10)) THEN "Poor"
    ELSE IF Le(bmi, R(23)) THEN "Excellent"
    ELSE IF Lt(bmi, R(25)) THEN "Very Good"
    ELSE IF Lt(bmi, Rat(275, 10)) THEN "Good"
    ELSE IF Lt(bmi, R(30)) THEN "Fair"
    ELSE "Poor"

classify_bmi(bmi) ==
    IF Lt(bmi, Rat(185, 10)) THEN "Poor"
    ELSE IF Lt(bmi, R(23)) THEN "Excellent"
    ELSE IF Lt(bmi, R(25)) THEN "Very Good"
    ELSE IF Lt(bmi, Rat(275, 10)) THEN "Good"
    ELSE IF Lt(bmi, R(30)) THEN "Fair"
    ELSE "Poor"

classify_whr_genderIgnored(whr, gender) ==
    IF Lt(whr, Rat(85, 100)) THEN "Excellent"
    ELSE IF Lt(whr, Rat(90, 100)) THEN "Very Good"
    ELSE IF Lt(whr, Rat(95, 100)) THEN "Good"
    ELSE IF Lt(whr, R(1)) THEN "Fair"
    ELSE "Poor"

classify_whr(whr, gender) ==
    IF gender = "male"
    THEN IF Lt(whr, Rat(85, 100)) THEN "Excellent"
         ELSE IF Lt(whr, Rat(90, 100)) THEN "Very Good"
         ELSE IF Lt(whr, Rat(95, 100)) THEN "Good"
         ELSE IF Lt(whr, R(1)) THEN "Fair"
         ELSE "Poor"
    ELSE IF Lt(whr, Rat(75, 100)) THEN "Excellent"
         ELSE IF Lt(whr, Rat(80, 100)) THEN "Very Good"
         ELSE IF Lt(whr, Rat(85, 100)) THEN "Good"
         ELSE IF Lt(whr, Rat(90, 100)) THEN "Fair"
         ELSE "Poor"

----------------------------------------------------------------------------
(* Normative data and calculate_single_test                                *)

\* NORMS_DIR is a directory of JSON files, one per test_id; it is modelled
\* as a function from the test_ids that have a file to the parsed file.
load_norms(norms_dir, test_id) ==
    IF test_id \notin DOMAIN norms_dir
    THEN Raise(ValueError(<<"No normative data found for test", test_id>>))
    ELSE Return(norms_dir[test_id])

\* A slip: the file's inverted flag is not read.
InvertedFlag_notRead(norms) == FALSE

\* norms.get("inverted", False)
InvertedFlag(norms) ==
    IF "inverted" \in DOMAIN norms THEN norms.inverted ELSE FALSE

\* A slip: a gender without norms is rated against the male rows.
LookupRow_defaultMale(norms, test_id, gender, bracket) ==
    LET g == IF gender \in DOMAIN norms.norms THEN gender ELSE "male"
    IN  IF bracket \notin DOMAIN norms.norms[g]
        THEN Raise(ValueError(<<"No norms for age bracket", bracket, test_id, gender>>))
        ELSE Return(norms.norms[g][bracket])

\* The gender and bracket lookup of calculate_single_test.
LookupRow(norms, test_id, gender, bracket) ==
    IF gender \notin DOMAIN norms.norms
    THEN Raise(ValueError(<<"No norms for gender", gender, test_id>>))
    ELSE IF bracket \notin DOMAIN norms.norms[gender]
         THEN Raise(ValueError(<<"No norms for age bracket", bracket, test_id, gender>>))
         ELSE Return(norms.norms[gender][bracket])

\* MetricResult; description holds the parts interpolated into the f-string.
MetricResult(test_name, raw_value, unit, rating, category, description, thresholds, inverted) ==
    [test_name |-> test_name, raw_value |-> raw_value, unit |-> unit,
     rating |-> rating, percentile |-> None, category |-> category,
     description |-> description, thresholds |-> thresholds,
     inverted |-> inverted]

calculate_single_test(norms_dir, test_id, value, age, gender) ==
    LET loaded == load_norms(norms_dir, test_id) IN
    IF loaded.kind = "raise" THEN loaded
    ELSE
    LET norms    == loaded.val
        bracket  == get_age_bracket(age)
        inverted == InvertedFlag(norms)
        row      == LookupRow(norms, test_id, gender, bracket)
    IN  IF row.kind = "raise" THEN row
        ELSE
        LET thresholds == row.val
            rating     == get_rating(value, thresholds, inverted)
        IN  IF rating.kind = "raise" THEN rating
            ELSE Return(MetricResult(
                     norms.test_name, value, norms.unit, rating.val,
                     norms.category,
                     <<norms.test_name, value, norms.unit, rating.val>>,
                     thresholds, inverted))

----------------------------------------------------------------------------
(* _compute_bmi, _compute_whr, calculate_all_tests                         *)

bmi_thresholds_shifted ==
    [excellent |-> R(24), very_good |-> R(25), good |-> Rat(275, 10),
     fair |-> R(30), poor |-> R(50)]

bmi_thresholds ==
    [excellent |-> R(23), very_good |-> R(25), good |-> Rat(275, 10),
     fair |-> R(30), poor |-> R(50)]

\* The unit is "kg/m" followed by a superscript two in the source.
_compute_bmi(client) ==
    LET height_m    == Div(client.height_cm, R(100))
        bmi         == Div(client.weight_kg, Mul(height_m, height_m))
        rating      == classify_bmi(bmi)
        bmi_rounded == Round(bmi, 1)
    IN  MetricResult("Body Mass Index (BMI)", bmi_rounded, "kg/m2", rating,
                     "body_comp", <<"BMI", bmi_rounded, "kg/m2", rating>>,
                     bmi_thresholds, TRUE)

whr_thresholds_maleOnly(gender) ==
    [excellent |-> Rat(85, 100), very_good |-> Rat(90, 100),
     good |-> Rat(95, 100), fair |-> R(1), poor |-> Rat(150, 100)]

whr_thresholds(gender) ==
    IF gender = "male"
    THEN [excellent |-> Rat(85, 100), very_good |-> Rat(90, 100),
          good |-> Rat(95, 100), fair |-> R(1), poor |-> Rat(150, 100)]
    ELSE [excellent |-> Rat(75, 100), very_good |-> Rat(80, 100),
          good |-> Rat(85, 100), fair |-> Rat(90, 100), poor |-> Rat(150, 100)]

_compute_whr(client) ==
    LET whr         == Div(client.waist_cm, client.hip_cm)
        rating      == classify_whr(whr, client.gender)
        whr_rounded == Round(whr, 3)
    IN  MetricResult("Waist-to-Hip Ratio", whr_rounded, "ratio", rating,
                     "body_comp", <<"Waist-to-Hip Ratio", whr_rounded, rating>>,
                     whr_thresholds(client.gender), TRUE)

\* A slip: a test that raises is skipped instead of aborting the batch.
RECURSIVE TestLoop_skipFailed(_, _, _, _)
TestLoop_skipFailed(norms_dir, input, i, results) ==
    IF i > Len(input.tests) THEN Return(results)
    ELSE LET result == calculate_single_test(
                           norms_dir, input.tests[i][1], input.tests[i][2],
                           input.client.age, input.client.gender)
         IN  IF result.kind = "raise"
             THEN TestLoop_skipFailed(norms_dir, input, i + 1, results)
             ELSE TestLoop_skipFailed(norms_dir, input, i + 1,
                                      Append(results, result.val))

\* The loop over input.tests.items() from item i on; tests is the sequence of
\* the dict's (test_id, value) items in insertion order.  An exception of
\* calculate_single_test leaves the loop and the function.
RECURSIVE TestLoop(_, _, _, _)
TestLoop(norms_dir, input, i, results) ==
    IF i > Len(input.tests) THEN Return(results)
    ELSE LET result == calculate_single_test(
                           norms_dir, input.tests[i][1], input.tests[i][2],
                           input.client.age, input.client.gender)
         IN  IF result.kind = "raise" THEN result
             ELSE TestLoop(norms_dir, input, i + 1, Append(results, result.val))

\* A slip: the two computed metrics are appended in the other order.
AppendComputed_whrFirst(results, client) ==
    LET with_whr == IF Truthy(client.waist_cm) /\ Truthy(client.hip_cm)
                    THEN Append(results, _compute_whr(client))
                    ELSE results
    IN  IF Truthy(client.height_cm) /\ Truthy(client.weight_kg)
        THEN Append(with_whr, _compute_bmi(client))
        ELSE with_whr

\* The two auto-computed metrics appended after the loop.
AppendComputed(results, client) ==
    LET with_bmi == IF Truthy(client.height_cm) /\ Truthy(client.weight_kg)
                    THEN Append(results, _compute_bmi(client))
                    ELSE results
    IN  IF Truthy(client.waist_cm) /\ Truthy(client.hip_cm)
        THEN Append(with_bmi, _compute_whr(client))
        ELSE with_bmi

calculate_all_tests(norms_dir, input) ==
    LET tested == TestLoop(norms_dir, input, 1, <<>>)
    IN  IF tested.kind = "raise" THEN tested
        ELSE Return(AppendComputed(tested.val, input.client))

----------------------------------------------------------------------------
(* compute_progress (client_service.py; db_service.py has the same code)   *)

\* client_service._RATING_ORDER: the display labels, worst first.
progress_RATING_ORDER == <<"Poor", "Fair", "Good", "Very Good", "Excellent">>

RatingIndex_unknownIsPoor(rating) ==
    IF \E i \in DOMAIN progress_RATING_ORDER : progress_RATING_ORDER[i] = rating
    THEN (CHOOSE i \in DOMAIN progress_RATING_ORDER :
              progress_RATING_ORDER[i] = rating) - 1
    ELSE 0

\* _RATING_ORDER.index(rating) if rating in _RATING_ORDER else -1
RatingIndex(rating) ==
    IF \E i \in DOMAIN progress_RATING_ORDER : progress_RATING_ORDER[i] = rating
    THEN (CHOOSE i \in DOMAIN progress_RATING_ORDER :
              progress_RATING_ORDER[i] = rating) - 1
    ELSE 0 - 1

\* {r.test_name: r for r in previous}: a later entry of a name replaces an
\* earlier one.
PrevMap(previous) ==
    [name \in {previous[i].test_name : i \in DOMAIN previous} |->
        previous[CHOOSE i \in DOMAIN previous :
                     /\ previous[i].test_name = name
                     /\ \A j \in DOMAIN previous :
                            previous[j].test_name = name => j <= i]]

Direction_byValue(curr, prev) ==
    IF Gt(curr.raw_value, prev.raw_value) THEN "improved"
    ELSE IF Lt(curr.raw_value, prev.raw_value) THEN "declined"
    ELSE "unchanged"

Direction(curr, prev) ==
    LET curr_idx == RatingIndex(curr.rating)
        prev_idx == RatingIndex(prev.rating)
    IN  IF curr_idx > prev_idx THEN "improved"
        ELSE IF curr_idx < prev_idx THEN "declined"
        ELSE "unchanged"

ProgressDelta_swapped(curr, prev, direction, delta) ==
    [test_name |-> curr.test_name, previous_value |-> curr.raw_value,
     current_value |-> prev.raw_value, previous_rating |-> prev.rating,
     current_rating |-> curr.rating, direction |-> direction,
     delta |-> delta, unit |-> ""]

\* The ProgressDelta compute_progress builds; unit is not passed and keeps
\* its default.
ProgressDelta(curr, prev, direction, delta) ==
    [test_name |-> curr.test_name, previous_value |-> prev.raw_value,
     current_value |-> curr.raw_value, previous_rating |-> prev.rating,
     current_rating |-> curr.rating, direction |-> direction,
     delta |-> delta, unit |-> ""]

RECURSIVE ProgressLoop_stopAtMissing(_, _, _)
ProgressLoop_stopAtMissing(current, prev_map, i) ==
    IF i > Len(current) THEN <<>>
    ELSE IF current[i].test_name \notin DOMAIN prev_map THEN <<>>
    ELSE LET curr == current[i]
             prev == prev_map[curr.test_name]
             delta_val == Round(Sub(curr.raw_value, prev.raw_value), 2)
         IN  <<ProgressDelta(curr, prev, Direction(curr, prev), delta_val)>>
                 \o ProgressLoop_stopAtMissing(current, prev_map, i + 1)

\* The loop over current from its i-th entry on.
RECURSIVE ProgressLoop(_, _, _)
ProgressLoop(current, prev_map, i) ==
    IF i > Len(current) THEN <<>>
    ELSE IF current[i].test_name \notin DOMAIN prev_map
    THEN ProgressLoop(current, prev_map, i + 1)
    ELSE LET curr == current[i]
             prev == prev_map[curr.test_name]
             delta_val == Round(Sub(curr.raw_value, prev.raw_value), 2)
         IN  <<ProgressDelta(curr, prev, Direction(curr, prev), delta_val)>>
                 \o ProgressLoop(current, prev_map, i + 1)

compute_progress(current, previous) ==
    ProgressLoop(current, PrevMap(previous), 1)

\* The delta dict the assessment page builds for one result: the same
\* fields, and the unit of the current result.
PageDelta(curr, prev) ==
    [test_name |-> curr.test_name, previous_value |-> prev.raw_value,
     current_value |-> curr.raw_value, previous_rating |-> prev.rating,
     current_rating |-> curr.rating, direction |-> Direction(curr, prev),
     delta |-> Round(Sub(curr.raw_value, prev.raw_value), 2),
     unit |-> curr.unit]

\* The assessment page's dict test_name -> delta: a later current result of
\* a name replaces the delta of an earlier one.
_compute_progress_deltas(current, previous) ==
    LET prev_map == PrevMap(previous)
    IN  [name \in {current[i].test_name : i \in DOMAIN current} \cap DOMAIN prev_map |->
            LET i == CHOOSE i \in DOMAIN current :
                         /\ current[i].test_name = name
                         /\ \A j \in DOMAIN current :
                                current[j].test_name = name => j <= i
            IN  PageDelta(current[i], prev_map[name])]

----------------------------------------------------------------------------
(* Body measurements (db_service.py: add_measurement, upsert_client)       *)

\* None in the place of an Optional[str].
NoneStr == "None"

\* The tables classify_body_fat rates against, in percent.
body_fat_thresholds(gender) ==
    IF gender = "male"
    THEN [excellent |-> R(13), very_good |-> R(17), good |-> R(24),
          fair |-> R(30), poor |-> R(60)]
    ELSE [excellent |-> R(20), very_good |-> R(24), good |-> R(31),
          fair |-> R(38), poor |-> R(60)]

\* classify_body_fat: lower is better, rated as every other metric is.
classify_body_fat(bf_pct, gender) ==
    get_rating(bf_pct, body_fat_thresholds(gender), TRUE).val

\* The argument of the waist logarithm of the US Navy formula: waist - neck
\* for a male client, waist + hip - neck for a female client.
NavyLogArgument(gender, waist_cm, neck_cm, hip_cm) ==
    IF gender = "male" THEN Sub(waist_cm, neck_cm)
    ELSE Sub(Add(waist_cm, hip_cm), neck_cm)

\* compute_body_fat_pct: None when a required measurement is missing or a
\* logarithm argument is not positive; the value of the formula otherwise.
\* The formula has logarithms, its value is the parameter formula_value.
compute_body_fat_pct(gender, height_cm, waist_cm, neck_cm, hip_cm, formula_value) ==
    IF height_cm = None \/ waist_cm = None \/ neck_cm = None THEN None
    ELSE IF gender = "female" /\ hip_cm = None THEN None
    ELSE IF Le(height_cm, R(0)) THEN None
    ELSE IF Le(NavyLogArgument(gender, waist_cm, neck_cm, hip_cm), R(0)) THEN None
    ELSE formula_value

\* bmi of a measurement row.
MeasurementBmi(height_cm, weight_kg) ==
    IF Truthy(height_cm) /\ Truthy(weight_kg)
    THEN LET h_m == Div(height_cm, R(100))
         IN  Round(Div(weight_kg, Mul(h_m, h_m)), 1)
    ELSE None

BodyFat_ratingOfZero(gender, height_cm, m, formula_value) ==
    LET bf_pct ==
            IF Truthy(height_cm) /\ Truthy(m.waist_cm) /\ Truthy(m.neck_cm)
            THEN compute_body_fat_pct(gender, height_cm, m.waist_cm, m.neck_cm,
                                      m.hip_cm, formula_value)
            ELSE None
    IN  [pct |-> bf_pct,
         rating |-> classify_body_fat(IF bf_pct # None THEN bf_pct ELSE R(0),
                                      gender)]

\* bf_pct and bf_rating of a measurement row.
BodyFat(gender, height_cm, m, formula_value) ==
    LET bf_pct ==
            IF Truthy(height_cm) /\ Truthy(m.waist_cm) /\ Truthy(m.neck_cm)
            THEN compute_body_fat_pct(gender, height_cm, m.waist_cm, m.neck_cm,
                                      m.hip_cm, formula_value)
            ELSE None
    IN  [pct |-> bf_pct,
         rating |-> IF bf_pct # None THEN classify_body_fat(bf_pct, gender)
                    ELSE NoneStr]

FatLeanMass_leanNotRounded(weight_kg, bf_pct) ==
    IF Truthy(weight_kg) /\ bf_pct # None
    THEN LET fat_mass == Round(Div(Mul(weight_kg, bf_pct), R(100)), 1)
         IN  [fat |-> fat_mass, lean |-> Sub(weight_kg, fat_mass)]
    ELSE [fat |-> None, lean |-> None]

\* fat_mass and lean_mass of a measurement row.
FatLeanMass(weight_kg, bf_pct) ==
    IF Truthy(weight_kg) /\ bf_pct # None
    THEN LET fat_mass == Round(Div(Mul(weight_kg, bf_pct), R(100)), 1)
         IN  [fat |-> fat_mass, lean |-> Round(Sub(weight_kg, fat_mass), 1)]
    ELSE [fat |-> None, lean |-> None]

\* The BodyMeasurement row both handlers build from the client's gender and
\* height and the measurements m; id, client_id and measured_at are left out.
BodyMeasurement(gender, height_cm, m, formula_value) ==
    LET bf   == BodyFat(gender, height_cm, m, formula_value)
        mass == FatLeanMass(m.weight_kg, bf.pct)
    IN  [weight_kg |-> m.weight_kg, waist_cm |-> m.waist_cm,
         hip_cm |-> m.hip_cm, neck_cm |-> m.neck_cm,
         bmi |-> MeasurementBmi(height_cm, m.weight_kg),
         body_fat_pct |-> bf.pct, body_fat_rating |-> bf.rating,
         fat_mass_kg |-> mass.fat, lean_mass_kg |-> mass.lean]

\* add_measurement: client is the row _get_client_row finds, if any; the
\* record returned is the row written.
add_measurement(client, measurement, formula_value) ==
    IF ~client.found
    THEN Raise(ValueError(<<"Client not found for coach">>))
    ELSE Return(BodyMeasurement(client.gender, client.height_cm, measurement,
                                formula_value))

\* db_service.upsert_client: the client row saved and the measurement rows
\* written with it, one when a measurement of the profile is given and none
\* otherwise.  The statements that build the row are those of
\* add_measurement, on the profile's fields.
db_upsert_client(coach_found, profile, formula_value) ==
    IF ~coach_found
    THEN Raise(ValueError(<<"Coach not found">>))
    ELSE LET m == [weight_kg |-> profile.weight_kg, waist_cm |-> profile.waist_cm,
                   hip_cm |-> profile.hip_cm, neck_cm |-> profile.neck_cm]
         IN  Return([client |-> [found |-> TRUE, gender |-> profile.gender,
                                 height_cm |-> profile.height_cm],
                     measurements |->
                         IF \/ Truthy(m.weight_kg) \/ Truthy(m.waist_cm)
                            \/ Truthy(m.hip_cm) \/ Truthy(m.neck_cm)
                         THEN <<BodyMeasurement(profile.gender, profile.height_cm,
                                                m, formula_value)>>
                         ELSE <<>>])

----------------------------------------------------------------------------
(* The JSON client store (client_service.py)                               *)

\* An Optional[...] field that is not a float: None is the empty sequence,
\* a value x is <<x>>.
Absent == <<>>

Some(x) == <<x>>

\* datetime <-> ISO 8601 string, as model_dump(mode="json") and
\* model_validate convert them; a datetime is the clock reading.
isoformat(t) == [iso |-> t]

fromisoformat(text) == text.iso

\* ClientRecord.model_dump(mode="json")
model_dump(r) ==
    [name |-> r.name, profile |-> r.profile,
     saved_at |-> isoformat(r.saved_at),
     last_assessment |-> r.last_assessment,
     assessed_at |-> [i \in DOMAIN r.assessed_at |-> isoformat(r.assessed_at[i])],
     assessment_history |->
         [i \in DOMAIN r.assessment_history |->
             [results |-> r.assessment_history[i].results,
              assessed_at |-> isoformat(r.assessment_history[i].assessed_at)]],
     coach_username |-> r.coach_username]

\* The value of a key of a JSON object, the field's default when the object
\* lacks the key.
Field(raw, key, default) == IF key \in DOMAIN raw THEN raw[key] ELSE default

\* ClientRecord.model_validate: the four fields after saved_at have defaults.
model_validate(raw) ==
    LET assessed_at        == Field(raw, "assessed_at", Absent)
        assessment_history == Field(raw, "assessment_history", <<>>)
    IN  [name |-> raw.name, profile |-> raw.profile,
         saved_at |-> fromisoformat(raw.saved_at),
         last_assessment |-> Field(raw, "last_assessment", Absent),
         assessed_at |->
             [i \in DOMAIN assessed_at |-> fromisoformat(assessed_at[i])],
         assessment_history |->
             [i \in DOMAIN assessment_history |->
                 [results |-> assessment_history[i].results,
                  assessed_at |-> fromisoformat(assessment_history[i].assessed_at)]],
         coach_username |-> Field(raw, "coach_username", "")]

\* CLIENTS_FILE: it may not exist; when it does, either its text parses to
\* the list of JSON objects `text` and these validate, or it does not.
NoFile == [exists |-> FALSE, parses |-> FALSE, text |-> <<>>]

Migrate_historyNotChecked(r) ==
    IF /\ r.last_assessment # Absent
       /\ r.last_assessment[1] # <<>>
    THEN [r EXCEPT !.assessment_history =
             <<[results |-> r.last_assessment[1],
                assessed_at |-> IF r.assessed_at # Absent THEN r.assessed_at[1]
                                ELSE r.saved_at]>>]
    ELSE r

\* The legacy migration of one record.
Migrate(r) ==
    IF /\ r.last_assessment # Absent
       /\ r.last_assessment[1] # <<>>
       /\ r.assessment_history = <<>>
    THEN [r EXCEPT !.assessment_history =
             <<[results |-> r.last_assessment[1],
                assessed_at |-> IF r.assessed_at # Absent THEN r.assessed_at[1]
                                ELSE r.saved_at]>>]
    ELSE r

load_clients(file) ==
    IF ~file.exists THEN <<>>
    ELSE IF ~file.parses THEN <<>>
    ELSE [i \in DOMAIN file.text |-> Migrate(model_validate(file.text[i]))]

\* The file after _write_clients(records).
_write_clients(records) ==
    [exists |-> TRUE, parses |-> TRUE,
     text |-> [i \in DOMAIN records |-> model_dump(records[i])]]

FirstNamed_caseIgnored(records, name) ==
    LET Folded(n) == IF n = "ann" THEN "Ann" ELSE n
    IN  IF \E i \in DOMAIN records : Folded(records[i].name) = Folded(name)
        THEN CHOOSE i \in DOMAIN records :
                 /\ Folded(records[i].name) = Folded(name)
                 /\ \A j \in DOMAIN records :
                        Folded(records[j].name) = Folded(name) => j >= i
        ELSE 0

\* The index of the first record of the name, 0 when there is none.
FirstNamed(records, name) ==
    IF \E i \in DOMAIN records : records[i].name = name
    THEN CHOOSE i \in DOMAIN records :
             /\ records[i].name = name
             /\ \A j \in DOMAIN records : records[j].name = name => j >= i
    ELSE 0

\* ClientRecord(name=..., profile=..., saved_at=...) with the defaults of
\* the other fields.
ClientRecord(name, profile, saved_at) ==
    [name |-> name, profile |-> profile, saved_at |-> saved_at,
     last_assessment |-> Absent, assessed_at |-> Absent,
     assessment_history |-> <<>>, coach_username |-> ""]

upsert_client_alwaysAppended(file, profile, now) ==
    LET records == load_clients(file)
        record  == ClientRecord(profile.name, profile, now)
    IN  [file |-> _write_clients(Append(records, record)),
         ret |-> Return(record)]

\* Each store function gives the file it leaves and what it returns or
\* raises.
upsert_client(file, profile, now) ==
    LET records == load_clients(file)
        i       == FirstNamed(records, profile.name)
    IN  IF i # 0
        THEN LET existing == records[i]
                 record   ==
                     [ClientRecord(profile.name, profile, now) EXCEPT
                         !.last_assessment = existing.last_assessment,
                         !.assessed_at = existing.assessed_at,
                         !.assessment_history = existing.assessment_history]
             IN  [file |-> _write_clients([records EXCEPT ![i] = record]),
                  ret |-> Return(record)]
        ELSE LET record == ClientRecord(profile.name, profile, now)
             IN  [file |-> _write_clients(Append(records, record)),
                  ret |-> Return(record)]

delete_client(file, name) ==
    LET records  == load_clients(file)
        filtered == SelectSeq(records, LAMBDA r : r.name # name)
    IN  IF Len(filtered) = Len(records)
        THEN [file |-> file, ret |-> Return(FALSE)]
        ELSE [file |-> _write_clients(filtered), ret |-> Return(TRUE)]

save_assessment_timeNotSet(file, name, results, now) ==
    LET records == load_clients(file)
        i       == FirstNamed(records, name)
    IN  IF i # 0
        THEN LET existing == records[i]
                 snapshot == [results |-> results, assessed_at |-> now]
                 record   ==
                     [existing EXCEPT
                         !.last_assessment = Some(results),
                         !.assessment_history = <<snapshot>> \o @,
                         !.coach_username = ""]
             IN  [file |-> _write_clients([records EXCEPT ![i] = record]),
                  ret |-> Return(record)]
        ELSE [file |-> file,
              ret |-> Raise(ValueError(<<"Client not found", name>>))]

save_assessment_historyReplaced(file, name, results, now) ==
    LET records == load_clients(file)
        i       == FirstNamed(records, name)
    IN  IF i # 0
        THEN LET existing == records[i]
                 snapshot == [results |-> results, assessed_at |-> now]
                 updated  ==
                     [ClientRecord(existing.name, existing.profile,
                                   existing.saved_at) EXCEPT
                         !.last_assessment = Some(results),
                         !.assessed_at = Some(now),
                         !.assessment_history = <<snapshot>>]
             IN  [file |-> _write_clients([records EXCEPT ![i] = updated]),
                  ret |-> Return(updated)]
        ELSE [file |-> file, ret |-> Raise(ValueError(<<"Client not found", name>>))]

save_assessment(file, name, results, now) ==
    LET records == load_clients(file)
        i       == FirstNamed(records, name)
    IN  IF i # 0
        THEN LET existing == records[i]
                 snapshot == [results |-> results, assessed_at |-> now]
                 updated  ==
                     [ClientRecord(existing.name, existing.profile,
                                   existing.saved_at) EXCEPT
                         !.last_assessment = Some(results),
                         !.assessed_at = Some(now),
                         !.assessment_history =
                             <<snapshot>> \o existing.assessment_history]
             IN  [file |-> _write_clients([records EXCEPT ![i] = updated]),
                  ret |-> Return(updated)]
        ELSE [file |-> file, ret |-> Raise(ValueError(<<"Client not found", name>>))]

----------------------------------------------------------------------------
(* Inputs of the actions.                                                  *)

\* get_age_bracket is applied to every age in -AgeBelow .. MaxAge.
AgeBelow == 3

MaxAge == 72

Ages == (0 - AgeBelow)..MaxAge

\* Thresholds of the tables given to get_rating range over 0 .. MaxThreshold;
\* values range one step beyond both ends.
MaxThreshold == 5

ThresholdValues == {R(n) : n \in 0..MaxThreshold}

RatingValues == {R(n) : n \in (0 - 1)..(MaxThreshold + 1)}

\* Tables with all five tier keys.
FullTables == [Tiers -> ThresholdValues]

\* Tables lacking at least one tier key.
PartialTables ==
    UNION {[S -> {R(1), R(3)}] : S \in (SUBSET Tiers) \ {Tiers}}

\* classify_bmi is applied to BMI values from BmiFrom to BmiTo hundredths.
BmiFrom == 1800

BmiTo == 3050

\* ... and to two values at and above the last threshold the result carries.
BmiValues == {Rat(n, 100) : n \in BmiFrom..BmiTo} \cup {R(50), Rat(501, 10)}

Genders == {"male", "female"}

\* classify_whr is applied to ratios from WhrFrom to WhrTo thousandths and to
\* two ratios at and above the last threshold the result carries.
WhrFrom == 700

WhrTo == 1050

WhrValues == {Rat(n, 1000) : n \in WhrFrom..WhrTo} \cup {Rat(15, 10), Rat(16, 10)}

\* A threshold row of a norms file.
Row(e, v, g, f, p) ==
    [excellent |-> R(e), very_good |-> R(v), good |-> R(g), fair |-> R(f),
     poor |-> R(p)]

\* Sample norms files.  The push-up rows male 20-29, 30-39, 50-59, 60-69 and
\* female 20-29 and the step test row male 20-29 are the ones the unit tests
\* state; the other rows are sample data of the same shape.  The push-up file
\* has no "inverted" key, the step test file sets it.
PushupFile ==
    [test_name |-> "Push-up Test", unit |-> "reps", category |-> "strength",
     norms |->
        [male |-> ("20-29" :> Row(36, 29, 22, 17, 16)) @@
                  ("30-39" :> Row(30, 22, 17, 12, 11)) @@
                  ("40-49" :> Row(25, 17, 13, 10, 9)) @@
                  ("50-59" :> Row(21, 13, 9, 6, 5)) @@
                  ("60-69" :> Row(18, 11, 8, 5, 4)),
         female |-> ("20-29" :> Row(30, 21, 15, 10, 9)) @@
                    ("30-39" :> Row(27, 20, 13, 8, 7)) @@
                    ("40-49" :> Row(24, 15, 11, 5, 4)) @@
                    ("50-59" :> Row(21, 11, 7, 2, 1)) @@
                    ("60-69" :> Row(17, 12, 5, 2, 1))]]

StepTestFile ==
    [test_name |-> "YMCA 3-Minute Step Test", unit |-> "bpm",
     category |-> "cardio", inverted |-> TRUE,
     norms |->
        [male |-> ("20-29" :> Row(70, 79, 83, 89, 200)) @@
                  ("30-39" :> Row(72, 81, 85, 91, 200)) @@
                  ("40-49" :> Row(74, 83, 89, 95, 200)) @@
                  ("50-59" :> Row(76, 85, 91, 97, 200)) @@
                  ("60-69" :> Row(78, 87, 93, 99, 200)),
         female |-> ("20-29" :> Row(78, 87, 93, 99, 200)) @@
                    ("30-39" :> Row(80, 89, 95, 101, 200)) @@
                    ("40-49" :> Row(82, 91, 97, 103, 200)) @@
                    ("50-59" :> Row(84, 93, 99, 105, 200)) @@
                    ("60-69" :> Row(86, 95, 101, 107, 200))]]

\* The function f without the key k.
Without(f, k) == [x \in DOMAIN f \ {k} |-> f[x]]

\* The directory with both files complete.
CompleteDir == ("pushup" :> PushupFile) @@ ("step_test" :> StepTestFile)

\* The directory with the step test file lacking the female norms.
NoGenderDir ==
    ("pushup" :> PushupFile) @@
    ("step_test" :> [StepTestFile EXCEPT !.norms = Without(@, "female")])

\* The directory with the push-up file lacking the male 60-69 row.
NoBracketDir ==
    ("pushup" :> [PushupFile EXCEPT !.norms.male = Without(@, "60-69")]) @@
    ("step_test" :> StepTestFile)

\* The directories a call may run against, by name.
NormsDirs ==
    [complete |-> CompleteDir, no_gender |-> NoGenderDir,
     no_bracket |-> NoBracketDir]

\* Submitted test_ids; no directory has a file for "squat".
TestIds == {"pushup", "step_test", "squat"}

\* calculate_single_test is applied to the values 0 .. MaxTestValue.
MaxTestValue == 37

SingleTestValues == {R(n) : n \in 0..MaxTestValue} \cup {R(75), R(95)}

ClientAges == {17, 25, 35, 45, 55, 65, 75}

\* calculate_all_tests gets at most MaxTests submitted tests.
MaxTests == 2

BatchValues == {R(25), R(75)}

BatchAges == {35, 65}

\* ClientProfile: the fields the engine reads.
Clients ==
    [age : BatchAges, gender : Genders,
     height_cm : {None, R(0), R(175)},
     weight_kg : {None, R(0), R(70), Rat(703, 10), Rat(566, 10)},
     waist_cm : {None, R(87), Rat(1011, 10)},
     hip_cm : {None, R(0), R(100), R(119)}]

\* The items of a tests dict: no test_id twice.
TestDicts ==
    {t \in UNION {[1..n -> TestIds \X BatchValues] : n \in 0..MaxTests} :
        \A i, j \in DOMAIN t : i # j => t[i][1] # t[j][1]}

\* compute_progress gets lists of at most MaxResults results.
MaxResults == 2

ProgressTestNames == {"Push-up Test", "Plank Test"}

\* Rating and raw value of the results compared: the five labels are not all
\* needed, two strings are no label at all.
ProgressRated ==
    {<<"Poor", Rat(25001, 1000)>>, <<"Excellent", R(25)>>, <<"Good", R(40)>>,
     <<"Unknown", R(30)>>, <<"N/A", R(25)>>}

\* MetricResult: the fields compute_progress reads, and the unit.
ProgressResults ==
    {[test_name |-> name, raw_value |-> rated[2], unit |-> "reps",
      rating |-> rated[1]] : name \in ProgressTestNames, rated \in ProgressRated}

ResultLists == UNION {[1..n -> ProgressResults] : n \in 0..MaxResults}

\* BodyMeasurementInput, and the same four fields of a ClientProfile.
MeasurementInputs ==
    [weight_kg : {None, R(0), R(70), Rat(7024, 100)},
     waist_cm : {None, R(0), R(85), R(30)},
     hip_cm : {None, R(95), R(5)},
     neck_cm : {None, R(38)}]

\* height_cm of a client row or profile.
Heights == {None, R(0), R(175), R(0 - 175)}

\* The client row _get_client_row finds: none, or one with these fields.
ClientRows ==
    {[found |-> FALSE, gender |-> "male", height_cm |-> None]} \cup
    [found : {TRUE}, gender : Genders, height_cm : Heights]

\* Values of the US Navy formula, in percent.
FormulaValues == {Rat(153, 10), Rat(2487, 100)}

\* The store is followed for MaxClock calls.
MaxClock == 4

\* Two names that differ in case only.
ClientNames == {"Ann", "ann"}

\* ClientProfile: the name and one field an update changes.
Profiles == [name : ClientNames, age : {30, 31}]

\* The results lists passed to save_assessment.
StoredResults ==
    {<<>>,
     <<[test_name |-> "Push-up Test", raw_value |-> R(25), unit |-> "reps",
        rating |-> "Good"]>>,
     <<[test_name |-> "Push-up Test", raw_value |-> R(40), unit |-> "reps",
        rating |-> "Excellent"]>>}

\* JSON objects of a clients.json written before assessment_history was
\* introduced, and of one written since: a record saved at -2 whose
\* assessment, if any, was taken at -1.
RawRecords(name) ==
    LET profile == [name |-> name, age |-> 30]
        results == <<[test_name |-> "Push-up Test", raw_value |-> R(20),
                      unit |-> "reps", rating |-> "Fair"]>>
        base    == [name |-> name, profile |-> profile,
                    saved_at |-> isoformat(0 - 2)]
    IN  [never_assessed |-> base,
         legacy |-> base @@ [last_assessment |-> Some(results),
                             assessed_at |-> Some(isoformat(0 - 1))],
         legacy_undated |-> base @@ [last_assessment |-> Some(results),
                                     assessed_at |-> Absent],
         legacy_empty |-> base @@ [last_assessment |-> Some(<<>>),
                                   assessed_at |-> Some(isoformat(0 - 1))],
         modern |-> base @@ [last_assessment |-> Some(results),
                             assessed_at |-> Some(isoformat(0 - 1)),
                             assessment_history |->
                                 <<[results |-> results,
                                    assessed_at |-> isoformat(0 - 1)]>>,
                             coach_username |-> ""]]

\* The clients.json files a run may find: none, one that does not parse,
\* one record, or two records of different names.
SampleFiles ==
    {NoFile, [exists |-> TRUE, parses |-> FALSE, text |-> <<>>]} \cup
    {[exists |-> TRUE, parses |-> TRUE, text |-> <<RawRecords("Ann")[kind]>>] :
        kind \in DOMAIN RawRecords("Ann")} \cup
    {[exists |-> TRUE, parses |-> TRUE,
      text |-> <<RawRecords("ann")["modern"], RawRecords("Ann")[kind]>>] :
        kind \in DOMAIN RawRecords("Ann")}

----------------------------------------------------------------------------
(* The database of db_service: the rows of its four tables.               *)

NoDb == [coaches |-> {}, clients |-> {}, measurements |-> {}, assessments |-> {}]

\* The primary key SQLite gives a new row of a table.
NextId(rows) ==
    IF rows = {} THEN 1
    ELSE 1 + (CHOOSE n \in {r.id : r \in rows} : \A r \in rows : r.id <= n)

\* order_by(<time>.desc()) of rows given as <<time, row>> pairs.
RECURSIVE NewestFirst(_)
NewestFirst(timed) ==
    IF timed = {} THEN <<>>
    ELSE LET top == CHOOSE p \in timed : \A q \in timed : p[1] >= q[1]
         IN  <<top[2]>> \o NewestFirst(timed \ {top})

HTTPException(status_code, detail) ==
    [type |-> "HTTPException", msg |-> <<status_code, detail>>]

IntegrityError(constraint) == [type |-> "IntegrityError", msg |-> <<constraint>>]

get_coach_by_username(d, username) ==
    IF \E c \in d.coaches : c.username = username
    THEN Some(CHOOSE c \in d.coaches : c.username = username)
    ELSE Absent

_get_client_row_anyCoach(d, coach_username, name) ==
    IF \E c \in d.clients : c.name = name
    THEN Some(CHOOSE c \in d.clients :
                  /\ c.name = name
                  /\ \A other \in d.clients : other.name = name => other.id >= c.id)
    ELSE Absent

_get_client_row(d, coach_username, name) ==
    LET coach == get_coach_by_username(d, coach_username)
    IN  IF coach = Absent THEN Absent
        ELSE IF \E c \in d.clients : c.coach_id = coach[1].id /\ c.name = name
        THEN Some(CHOOSE c \in d.clients :
                      c.coach_id = coach[1].id /\ c.name = name)
        ELSE Absent

MeasurementsOf(d, client) == {m \in d.measurements : m.client_id = client.id}

AssessmentsOf(d, client) == {a \in d.assessments : a.client_id = client.id}

\* The snapshots of a client, newest first.
Snapshots(d, client) ==
    LET assessments ==
            NewestFirst({<<a.assessed_at, a>> : a \in AssessmentsOf(d, client)})
    IN  [i \in DOMAIN assessments |->
            [results |-> assessments[i].results,
             assessed_at |-> assessments[i].assessed_at]]

_client_to_record(d, client, coach_username) ==
    LET latest_meas ==
            NewestFirst({<<m.measured_at, m>> : m \in MeasurementsOf(d, client)})
        snapshots == Snapshots(d, client)
    IN  [name |-> client.name,
         profile |-> [name |-> client.name, age |-> client.age,
                      weight_kg |-> IF latest_meas # <<>>
                                    THEN latest_meas[1].weight_kg ELSE None],
         saved_at |-> client.saved_at,
         last_assessment |-> IF snapshots # <<>> THEN Some(snapshots[1].results)
                             ELSE Absent,
         assessed_at |-> IF snapshots # <<>> THEN Some(snapshots[1].assessed_at)
                         ELSE Absent,
         assessment_history |-> snapshots,
         coach_username |-> coach_username]

list_clients_for_coach(d, coach_username) ==
    LET coach == get_coach_by_username(d, coach_username)
    IN  IF coach = Absent THEN <<>>
        ELSE LET clients ==
                     NewestFirst({<<c.saved_at, c>> :
                                     c \in {c \in d.clients : c.coach_id = coach[1].id}})
             IN  [i \in DOMAIN clients |->
                     _client_to_record(d, clients[i], coach_username)]

\* The functions that write give the database they leave and what they
\* return or raise.  Of a body measurement the rows keep the weight; the
\* computed columns are those of add_measurement and db_upsert_client above.
service_upsert_client(d, profile, coach_username, now) ==
    LET coach    == get_coach_by_username(d, coach_username)
        existing == _get_client_row(d, coach_username, profile.name)
    IN  IF coach = Absent
        THEN [db |-> d, ret |-> Raise(ValueError(<<"Coach not found", coach_username>>))]
        ELSE LET client ==
                     IF existing # Absent
                     THEN [existing[1] EXCEPT !.age = profile.age, !.saved_at = now]
                     ELSE [id |-> NextId(d.clients), coach_id |-> coach[1].id,
                           name |-> profile.name, age |-> profile.age,
                           saved_at |-> now]
                 clients ==
                     IF existing # Absent
                     THEN (d.clients \ {existing[1]}) \cup {client}
                     ELSE d.clients \cup {client}
                 measurements ==
                     IF Truthy(profile.weight_kg)
                     THEN d.measurements \cup
                              {[id |-> NextId(d.measurements), client_id |-> client.id,
                                measured_at |-> now, weight_kg |-> profile.weight_kg]}
                     ELSE d.measurements
                 after == [d EXCEPT !.clients = clients, !.measurements = measurements]
             IN  [db |-> after,
                  ret |-> Return(_client_to_record(after, client, coach_username))]

\* db.delete(client) deletes the measurements and assessments of the client
\* with it (cascade="all, delete-orphan").
service_delete_client(d, coach_username, name) ==
    LET client == _get_client_row(d, coach_username, name)
    IN  IF client = Absent THEN [db |-> d, ret |-> Return(FALSE)]
        ELSE [db |-> [d EXCEPT !.clients = @ \ {client[1]},
                               !.measurements = @ \ MeasurementsOf(d, client[1]),
                               !.assessments = @ \ AssessmentsOf(d, client[1])],
              ret |-> Return(TRUE)]

service_save_assessment(d, coach_username, name, results, now) ==
    LET client == _get_client_row(d, coach_username, name)
    IN  IF client = Absent
        THEN [db |-> d,
              ret |-> Raise(ValueError(<<"Client not found for coach", name, coach_username>>))]
        ELSE LET after ==
                     [d EXCEPT !.assessments = @ \cup
                         {[id |-> NextId(d.assessments), client_id |-> client[1].id,
                           assessed_at |-> now, results |-> results]}]
             IN  [db |-> after,
                  ret |-> Return(_client_to_record(after, client[1], coach_username))]

get_assessment_history(d, coach_username, name) ==
    LET client == _get_client_row(d, coach_username, name)
    IN  IF client = Absent THEN <<>> ELSE Snapshots(d, client[1])

service_add_measurement(d, coach_username, client_name, weight_kg, now) ==
    LET client == _get_client_row(d, coach_username, client_name)
    IN  IF client = Absent
        THEN [db |-> d,
              ret |-> Raise(ValueError(<<"Client not found for coach", client_name,
                                         coach_username>>))]
        ELSE LET row == [id |-> NextId(d.measurements), client_id |-> client[1].id,
                         measured_at |-> now, weight_kg |-> weight_kg]
             IN  [db |-> [d EXCEPT !.measurements = @ \cup {row}],
                  ret |-> Return(row)]

\* GET /clients/{name}/history; the CSV export has the same test and
\* formats the same history.
get_client_history(d, name, coach) ==
    LET history == get_assessment_history(d, coach, name)
    IN  IF history = <<>> THEN Raise(HTTPException(404, <<"Client not found", name>>))
        ELSE Return(history)

\* POST /auth/signup.
signup(d, username) ==
    IF get_coach_by_username(d, username) # Absent
    THEN [db |-> d, ret |-> Raise(HTTPException(409, <<"Username taken", username>>))]
    ELSE LET coach == [id |-> NextId(d.coaches), username |-> username]
         IN  [db |-> [d EXCEPT !.coaches = @ \cup {coach}],
              ret |-> Return(username)]

----------------------------------------------------------------------------
(* The migration of the JSON files into the database at startup.          *)

\* settings.coach_username
EnvCoach == "admin"

\* The Coach rows added for the usernames, in their order.
RECURSIVE SeedCoaches(_, _, _)
SeedCoaches(coaches, usernames, i) ==
    IF i > Len(usernames) THEN coaches
    ELSE SeedCoaches(coaches \cup {[id |-> NextId(coaches), username |-> usernames[i]]},
                     usernames, i + 1)

\* The Assessment rows of a history, the oldest snapshot first.
RECURSIVE SeedAssessments(_, _, _, _)
SeedAssessments(assessments, client_id, history, i) ==
    IF i = 0 THEN assessments
    ELSE SeedAssessments(
             assessments \cup {[id |-> NextId(assessments), client_id |-> client_id,
                                assessed_at |-> history[i].assessed_at,
                                results |-> history[i].results]},
             client_id, history, i - 1)

\* The rows of each ClientRecord: a client of the named coach, or of the
\* first one; a measurement when the profile has one; its assessments.
RECURSIVE SeedClients(_, _, _, _)
SeedClients(d, records, first_coach, i) ==
    IF i > Len(records) THEN d
    ELSE LET record == records[i]
             named  == get_coach_by_username(d, record.coach_username)
             owner  == IF named # Absent THEN named[1] ELSE first_coach
             client == [id |-> NextId(d.clients), coach_id |-> owner.id,
                        name |-> record.profile.name, age |-> record.profile.age,
                        saved_at |-> record.saved_at]
             seeded ==
                 [d EXCEPT
                     !.clients = @ \cup {client},
                     !.measurements =
                         IF Truthy(record.profile.weight_kg)
                         THEN @ \cup {[id |-> NextId(d.measurements),
                                       client_id |-> client.id,
                                       measured_at |-> record.saved_at,
                                       weight_kg |-> record.profile.weight_kg]}
                         ELSE @,
                     !.assessments =
                         SeedAssessments(@, client.id, record.assessment_history,
                                         Len(record.assessment_history))]
         IN  SeedClients(seeded, records, first_coach, i + 1)

\* uq_client_coach_name holds of the rows.
UniqueClients(d) ==
    \A c1, c2 \in d.clients :
        (c1.coach_id = c2.coach_id /\ c1.name = c2.name) => c1 = c2

\* A run that found no coach: the database it leaves, and how it ended: with
\* the coaches only, with the clients too, or with the exception of a
\* constraint, which leaves nothing committed.
MigrationRun(d, coaches, clients) ==
    LET coaches_raw == IF coaches.exists /\ coaches.parses /\ coaches.text # <<>>
                       THEN coaches.text
                       ELSE <<EnvCoach>>
        seeded      == [d EXCEPT !.coaches = SeedCoaches(@, coaches_raw, 1)]
    IN  IF \E i, j \in DOMAIN coaches_raw : i # j /\ coaches_raw[i] = coaches_raw[j]
        THEN [db |-> d, ret |-> Raise(IntegrityError("coaches.username"))]
        ELSE IF ~clients.exists \/ ~clients.parses
        THEN [db |-> seeded, ret |-> Return("coaches")]
        ELSE LET records     == [i \in DOMAIN clients.text |->
                                    model_validate(clients.text[i])]
                 first_coach == CHOOSE c \in seeded.coaches :
                                    /\ c.username = coaches_raw[1]
                                    /\ \A other \in seeded.coaches :
                                           other.username = c.username => other.id >= c.id
                 migrated    == SeedClients(seeded, records, first_coach, 1)
             IN  IF UniqueClients(migrated)
                 THEN [db |-> migrated, ret |-> Return("clients")]
                 ELSE [db |-> d, ret |-> Raise(IntegrityError("uq_client_coach_name"))]

run_migration_if_needed_clientsCounted(d, coaches, clients) ==
    IF d.clients # {} THEN [db |-> d, ret |-> Return("skipped")]
    ELSE MigrationRun(d, coaches, clients)

\* Nothing is done when the coaches table has a row.
run_migration_if_needed(d, coaches, clients) ==
    IF d.coaches # {} THEN [db |-> d, ret |-> Return("skipped")]
    ELSE MigrationRun(d, coaches, clients)

----------------------------------------------------------------------------
(* Calls and actions.  A behaviour is one call: Init draws the function    *)
(* and its arguments, the function's action computes what it returns or    *)
(* raises.                                                                 *)

Pending == [kind |-> "pending", val |-> None]

AgeBracketCall ==
    \E age \in Ages :
        call = [op |-> "get_age_bracket", age |-> age]

RatingCall ==
    \E value \in RatingValues, thresholds \in FullTables \cup PartialTables,
       inverted \in BOOLEAN :
        call = [op |-> "get_rating", value |-> value,
                thresholds |-> thresholds, inverted |-> inverted]

BmiCall ==
    \E bmi \in BmiValues :
        call = [op |-> "classify_bmi", bmi |-> bmi]

WhrCall ==
    \E whr \in WhrValues, gender \in Genders :
        call = [op |-> "classify_whr", whr |-> whr, gender |-> gender]

SingleTestCall ==
    \E norms_dir \in DOMAIN NormsDirs, test_id \in TestIds,
       value \in SingleTestValues, age \in ClientAges, gender \in Genders :
        call = [op |-> "calculate_single_test", norms_dir |-> norms_dir,
                test_id |-> test_id, value |-> value, age |-> age,
                gender |-> gender]

AllTestsCall ==
    \E norms_dir \in DOMAIN NormsDirs, client \in Clients, tests \in TestDicts :
        call = [op |-> "calculate_all_tests", norms_dir |-> norms_dir,
                input |-> [client |-> client, tests |-> tests]]

ProgressCall ==
    \E current \in ResultLists, previous \in ResultLists :
        call = [op |-> "compute_progress", current |-> current,
                previous |-> previous]

AddMeasurementCall ==
    \E client \in ClientRows, measurement \in MeasurementInputs :
        call = [op |-> "add_measurement", client |-> client,
                measurement |-> measurement]

DbUpsertClientCall ==
    \E coach_found \in BOOLEAN, gender \in Genders, height_cm \in Heights,
       m \in MeasurementInputs :
        call = [op |-> "db_upsert_client", coach_found |-> coach_found,
                profile |-> [gender |-> gender, height_cm |-> height_cm,
                             weight_kg |-> m.weight_kg, waist_cm |-> m.waist_cm,
                             hip_cm |-> m.hip_cm, neck_cm |-> m.neck_cm]]

\* No client store is touched by the engine functions.
NoStore ==
    /\ clients_file = NoFile
    /\ clock = 0
    /\ saved = [name \in ClientNames |-> <<>>]
    /\ tasks = <<>>
    /\ db = NoDb
    /\ coaches_file = NoFile

Init ==
    /\ NoStore
    /\ \/ AgeBracketCall
       \/ RatingCall
       \/ BmiCall
       \/ WhrCall
       \/ SingleTestCall
       \/ AllTestsCall
       \/ ProgressCall
       \/ AddMeasurementCall
       \/ DbUpsertClientCall
    /\ ret = Pending

GetAgeBracket ==
    /\ call.op = "get_age_bracket"
    /\ ret.kind = "pending"
    /\ ret' = Return(get_age_bracket(call.age))
    /\ UNCHANGED <<call, store, tasks, database>>

GetRating ==
    /\ call.op = "get_rating"
    /\ ret.kind = "pending"
    /\ ret' = get_rating(call.value, call.thresholds, call.inverted)
    /\ UNCHANGED <<call, store, tasks, database>>

ClassifyBmi ==
    /\ call.op = "classify_bmi"
    /\ ret.kind = "pending"
    /\ ret' = Return(classify_bmi(call.bmi))
    /\ UNCHANGED <<call, store, tasks, database>>

ClassifyWhr ==
    /\ call.op = "classify_whr"
    /\ ret.kind = "pending"
    /\ ret' = Return(classify_whr(call.whr, call.gender))
    /\ UNCHANGED <<call, store, tasks, database>>

CalculateSingleTest ==
    /\ call.op = "calculate_single_test"
    /\ ret.kind = "pending"
    /\ ret' = calculate_single_test(NormsDirs[call.norms_dir], call.test_id,
                                    call.value, call.age, call.gender)
    /\ UNCHANGED <<call, store, tasks, database>>

CalculateAllTests ==
    /\ call.op = "calculate_all_tests"
    /\ ret.kind = "pending"
    /\ ret' = calculate_all_tests(NormsDirs[call.norms_dir], call.input)
    /\ UNCHANGED <<call, store, tasks, database>>

ComputeProgress ==
    /\ call.op = "compute_progress"
    /\ ret.kind = "pending"
    /\ ret' = Return(compute_progress(call.current, call.previous))
    /\ UNCHANGED <<call, store, tasks, database>>

AddMeasurement ==
    /\ call.op = "add_measurement"
    /\ ret.kind = "pending"
    /\ \E formula_value \in FormulaValues :
          ret' = add_measurement(call.client, call.measurement, formula_value)
    /\ UNCHANGED <<call, store, tasks, database>>

DbUpsertClient ==
    /\ call.op = "db_upsert_client"
    /\ ret.kind = "pending"
    /\ \E formula_value \in FormulaValues :
          ret' = db_upsert_client(call.coach_found, call.profile, formula_value)
    /\ UNCHANGED <<call, store, tasks, database>>

Next ==
    \/ GetAgeBracket
    \/ GetRating
    \/ ClassifyBmi
    \/ ClassifyWhr
    \/ CalculateSingleTest
    \/ CalculateAllTests
    \/ ComputeProgress
    \/ AddMeasurement
    \/ DbUpsertClient

Spec == Init /\ [][Next]_vars

----------------------------------------------------------------------------
(* The JSON client store.  A behaviour is a sequence of calls of the store *)
(* functions, one after the other, on a store that starts without a file.  *)

StoreInit ==
    /\ NoStore
    /\ call = [op |-> "none"]
    /\ ret = Pending

LoadClients ==
    /\ clock < MaxClock
    /\ clock' = clock + 1
    /\ call' = [op |-> "load_clients"]
    /\ ret' = Return(load_clients(clients_file))
    /\ UNCHANGED <<clients_file, saved, tasks, database>>

UpsertClient ==
    /\ clock < MaxClock
    /\ clock' = clock + 1
    /\ \E profile \in Profiles :
          LET done == upsert_client(clients_file, profile, clock')
          IN  /\ call' = [op |-> "upsert_client", profile |-> profile]
              /\ clients_file' = done.file
              /\ ret' = done.ret
    /\ UNCHANGED <<saved, tasks, database>>

DeleteClient ==
    /\ clock < MaxClock
    /\ clock' = clock + 1
    /\ \E name \in ClientNames :
          LET done == delete_client(clients_file, name)
          IN  /\ call' = [op |-> "delete_client", name |-> name]
              /\ clients_file' = done.file
              /\ ret' = done.ret
              /\ saved' = IF done.ret = Return(TRUE)
                          THEN [saved EXCEPT ![name] = <<>>]
                          ELSE saved
    /\ UNCHANGED <<tasks, database>>

SaveAssessment ==
    /\ clock < MaxClock
    /\ clock' = clock + 1
    /\ \E name \in ClientNames, results \in StoredResults :
          LET done == save_assessment(clients_file, name, results, clock')
          IN  /\ call' = [op |-> "save_assessment", name |-> name,
                          results |-> results]
              /\ clients_file' = done.file
              /\ ret' = done.ret
              /\ saved' = IF done.ret.kind = "return"
                          THEN [saved EXCEPT ![name] = <<results>> \o @]
                          ELSE saved
    /\ UNCHANGED <<tasks, database>>

StoreNext ==
    \/ LoadClients
    \/ UpsertClient
    \/ DeleteClient
    \/ SaveAssessment

StoreSpec == StoreInit /\ [][StoreNext]_vars

\* The store functions on a store that starts with a file of an earlier run.
LegacyInit ==
    /\ clients_file \in SampleFiles
    /\ clock = 0
    /\ saved = [name \in ClientNames |-> <<>>]
    /\ tasks = <<>>
    /\ db = NoDb
    /\ coaches_file = NoFile
    /\ call = [op |-> "none"]
    /\ ret = Pending

LegacySpec == LegacyInit /\ [][StoreNext]_vars

----------------------------------------------------------------------------
(* Two store calls running at the same time.  A call reads the file in    *)
(* load_clients and writes it in _write_clients; nothing in the module    *)
(* keeps another call from running between the two.                       *)

Tasks == {1, 2}

\* The calls that write: upsert_client and save_assessment.
WritingCalls ==
    {[op |-> "upsert_client", name |-> profile.name, profile |-> profile,
      results |-> <<>>] : profile \in Profiles} \cup
    {[op |-> "save_assessment", name |-> name,
      profile |-> [name |-> name, age |-> 30], results |-> results] :
        name \in ClientNames, results \in StoredResults}

\* Both clients are stored, saved at 0 with age 30 and never assessed.
ConcInit ==
    /\ clients_file =
          _write_clients(<<ClientRecord("Ann", [name |-> "Ann", age |-> 30], 0),
                           ClientRecord("ann", [name |-> "ann", age |-> 30], 0)>>)
    /\ clock = 0
    /\ saved = [name \in ClientNames |-> <<>>]
    /\ tasks \in [Tasks -> {[call |-> c, pc |-> "start", read |-> NoFile,
                              now |-> 0, ret |-> Pending] : c \in WritingCalls}]
    /\ db = NoDb
    /\ coaches_file = NoFile
    /\ call = [op |-> "none"]
    /\ ret = Pending

\* What the call of a task does with the file it read.
TaskDone(task) ==
    IF task.call.op = "upsert_client"
    THEN upsert_client(task.read, task.call.profile, task.now)
    ELSE save_assessment(task.read, task.call.name, task.call.results, task.now)

\* records = load_clients(), and the datetime.now() of the call.
TaskLoad(t) ==
    /\ tasks[t].pc = "start"
    /\ clock' = clock + 1
    /\ tasks' = [tasks EXCEPT ![t].pc = "loaded", ![t].read = clients_file,
                                ![t].now = clock']
    /\ UNCHANGED <<call, ret, clients_file, saved, database>>

\* _write_clients(records), or the raise that ends the call without it.
TaskWrite(t) ==
    /\ tasks[t].pc = "loaded"
    /\ LET done == TaskDone(tasks[t])
       IN  /\ tasks' = [tasks EXCEPT ![t].pc = "done", ![t].ret = done.ret]
           /\ clients_file' = IF done.ret.kind = "return" THEN done.file
                              ELSE clients_file
    /\ UNCHANGED <<call, ret, clock, saved, database>>

ConcNext == \E t \in Tasks : TaskLoad(t) \/ TaskWrite(t)

ConcSpec == ConcInit /\ [][ConcNext]_vars

----------------------------------------------------------------------------
(* The API on the database: the migration at each start of the            *)
(* application, then the calls of the coaches.                            *)

CoachNames == {EnvCoach, "bob"}

DbNames == {"Ann"}

DbProfiles ==
    {[name |-> "Ann", age |-> 30, weight_kg |-> None],
     [name |-> "Ann", age |-> 31, weight_kg |-> R(70)]}

DbResults == {results \in StoredResults : results = <<>> \/ results[1].rating = "Good"}

\* coaches.json: missing, not parsing, or naming coaches.
MigrationCoachFiles ==
    {NoFile,
     [exists |-> TRUE, parses |-> FALSE, text |-> <<>>],
     [exists |-> TRUE, parses |-> TRUE, text |-> <<"bob">>],
     [exists |-> TRUE, parses |-> TRUE, text |-> <<EnvCoach, "bob">>]}

\* clients.json: missing, not parsing, one client of no named coach with a
\* weight and two assessments, or that client and one of the same name of
\* coach bob.
MigrationClientFiles ==
    LET results == CHOOSE results \in DbResults : results # <<>>
        first   == [ClientRecord("Ann", [name |-> "Ann", age |-> 30,
                                         weight_kg |-> R(70)], 0 - 3) EXCEPT
                       !.last_assessment = Some(<<>>),
                       !.assessed_at = Some(0 - 1),
                       !.assessment_history =
                           <<[results |-> <<>>, assessed_at |-> 0 - 1],
                             [results |-> results, assessed_at |-> 0 - 2]>>]
        second  == [ClientRecord("Ann", [name |-> "Ann", age |-> 31,
                                         weight_kg |-> None], 0 - 2) EXCEPT
                       !.coach_username = "bob"]
    IN  {NoFile,
         [exists |-> TRUE, parses |-> FALSE, text |-> <<>>],
         _write_clients(<<first>>),
         _write_clients(<<first, second>>)}

DbInit ==
    /\ db = NoDb
    /\ coaches_file \in MigrationCoachFiles
    /\ clients_file \in MigrationClientFiles
    /\ clock = 0
    /\ saved = [name \in ClientNames |-> <<>>]
    /\ tasks = <<>>
    /\ call = [op |-> "none"]
    /\ ret = Pending

\* The application has started: its last start did not fail.
Serving ==
    /\ call.op # "none"
    /\ ~(call.op = "run_migration_if_needed" /\ ret.kind = "raise")

\* lifespan: a start of the application.
RunMigration ==
    /\ clock < MaxClock
    /\ clock' = clock + 1
    /\ LET done == run_migration_if_needed(db, coaches_file, clients_file)
       IN  /\ call' = [op |-> "run_migration_if_needed"]
           /\ db' = done.db
           /\ ret' = done.ret
    /\ UNCHANGED <<clients_file, coaches_file, saved, tasks>>

Signup ==
    /\ Serving
    /\ clock < MaxClock
    /\ clock' = clock + 1
    /\ \E username \in CoachNames :
          LET done == signup(db, username)
          IN  /\ call' = [op |-> "signup", username |-> username]
              /\ db' = done.db
              /\ ret' = done.ret
    /\ UNCHANGED <<clients_file, coaches_file, saved, tasks>>

ListClients ==
    /\ Serving
    /\ clock < MaxClock
    /\ clock' = clock + 1
    /\ \E coach \in CoachNames :
          /\ call' = [op |-> "list_clients", coach |-> coach]
          /\ ret' = Return(list_clients_for_coach(db, coach))
    /\ UNCHANGED <<db, clients_file, coaches_file, saved, tasks>>

GetClientHistory ==
    /\ Serving
    /\ clock < MaxClock
    /\ clock' = clock + 1
    /\ \E coach \in CoachNames, name \in DbNames :
          /\ call' = [op |-> "get_client_history", coach |-> coach, name |-> name]
          /\ ret' = get_client_history(db, name, coach)
    /\ UNCHANGED <<db, clients_file, coaches_file, saved, tasks>>

ServiceUpsertClient ==
    /\ Serving
    /\ clock < MaxClock
    /\ clock' = clock + 1
    /\ \E coach \in CoachNames, profile \in DbProfiles :
          LET done == service_upsert_client(db, profile, coach, clock')
          IN  /\ call' = [op |-> "upsert_client", coach |-> coach,
                          name |-> profile.name, profile |-> profile]
              /\ db' = done.db
              /\ ret' = done.ret
    /\ UNCHANGED <<clients_file, coaches_file, saved, tasks>>

ServiceDeleteClient ==
    /\ Serving
    /\ clock < MaxClock
    /\ clock' = clock + 1
    /\ \E coach \in CoachNames, name \in DbNames :
          LET done == service_delete_client(db, coach, name)
          IN  /\ call' = [op |-> "delete_client", coach |-> coach, name |-> name]
              /\ db' = done.db
              /\ ret' = done.ret
    /\ UNCHANGED <<clients_file, coaches_file, saved, tasks>>

ServiceSaveAssessment ==
    /\ Serving
    /\ clock < MaxClock
    /\ clock' = clock + 1
    /\ \E coach \in CoachNames, name \in DbNames, results \in DbResults :
          LET done == service_save_assessment(db, coach, name, results, clock')
          IN  /\ call' = [op |-> "save_assessment", coach |-> coach,
                          name |-> name, results |-> results]
              /\ db' = done.db
              /\ ret' = done.ret
    /\ UNCHANGED <<clients_file, coaches_file, saved, tasks>>

ServiceAddMeasurement ==
    /\ Serving
    /\ clock < MaxClock
    /\ clock' = clock + 1
    /\ \E coach \in CoachNames, name \in DbNames, weight_kg \in {R(72)} :
          LET done == service_add_measurement(db, coach, name, weight_kg, clock')
          IN  /\ call' = [op |-> "add_measurement", coach |-> coach,
                          name |-> name, weight_kg |-> weight_kg]
              /\ db' = done.db
              /\ ret' = done.ret
    /\ UNCHANGED <<clients_file, coaches_file, saved, tasks>>

DbNext ==
    \/ RunMigration
    \/ Signup
    \/ ListClients
    \/ GetClientHistory
    \/ ServiceUpsertClient
    \/ ServiceDeleteClient
    \/ ServiceSaveAssessment
    \/ ServiceAddMeasurement

DbSpec == DbInit /\ [][DbNext]_vars

----------------------------------------------------------------------------
(* Properties.                                                             *)

Done == ret.kind # "pending"

\* Rank of a display label in the order Poor < Fair < Good < Very Good <
\* Excellent.
Rank(rating) ==
    CASE rating = "Poor" -> 0
      [] rating = "Fair" -> 1
      [] rating = "Good" -> 2
      [] rating = "Very Good" -> 3
      [] rating = "Excellent" -> 4

\* The thresholds are strictly ordered in the direction of the flag:
\* descending from excellent to poor when not inverted, ascending when
\* inverted.
StrictlyOrdered(thresholds, inverted) ==
    \A i \in 1..(Len(_RATING_ORDER) - 1) :
        IF inverted
        THEN Lt(thresholds[_RATING_ORDER[i]], thresholds[_RATING_ORDER[i + 1]])
        ELSE Gt(thresholds[_RATING_ORDER[i]], thresholds[_RATING_ORDER[i + 1]])

RatedFullTable ==
    /\ call.op = "get_rating"
    /\ Done
    /\ DOMAIN call.thresholds = Tiers

\* C1: boundary inclusivity.  On a five-tier table strictly ordered in the
\* direction of the flag, a value equal to the threshold of tier t is rated
\* with the display label of t itself.
C1_BoundaryInclusive ==
    (RatedFullTable /\ StrictlyOrdered(call.thresholds, call.inverted)) =>
        \A t \in Tiers :
            EqR(call.value, call.thresholds[t]) => ret = Return(_RATING_DISPLAY[t])

C1_Witness ==
    /\ RatedFullTable
    /\ StrictlyOrdered(call.thresholds, call.inverted)
    /\ call.inverted
    /\ EqR(call.value, call.thresholds["fair"])
    /\ ret = Return("Fair")

\* C2: monotonicity in the value.  For a fixed five-tier table, a larger
\* value never gets a lower rank when not inverted and never a higher rank
\* when inverted.
C2_Monotonic ==
    RatedFullTable =>
        \A value2 \in RatingValues :
            Lt(value2, call.value) =>
                LET r1 == Rank(ret.val)
                    r2 == Rank(get_rating(value2, call.thresholds, call.inverted).val)
                IN  IF call.inverted THEN r1 <= r2 ELSE r1 >= r2

C2_Witness ==
    /\ RatedFullTable
    /\ ~call.inverted
    /\ ret = Return("Excellent")
    /\ \E value2 \in RatingValues :
          /\ Lt(value2, call.value)
          /\ get_rating(value2, call.thresholds, call.inverted) = Return("Fair")

\* The positions of _RATING_ORDER whose tier condition holds for the call.
MetPositions ==
    {i \in 1..Len(_RATING_ORDER) :
        IF call.inverted
        THEN Le(call.value, call.thresholds[_RATING_ORDER[i]])
        ELSE Ge(call.value, call.thresholds[_RATING_ORDER[i]])}

\* C3: best-first scan with a Poor fallback.  On a table with all five tier
\* keys get_rating raises nothing and returns the label of the first tier, in
\* the order excellent, very_good, good, fair, poor, whose condition holds,
\* and "Poor" when no condition holds; the result is one of the five display
\* strings.
C3_BestFirstScan ==
    RatedFullTable =>
        /\ ret.kind = "return"
        /\ ret.val \in Ratings
        /\ IF MetPositions = {}
           THEN ret.val = "Poor"
           ELSE \E i \in MetPositions :
                   /\ \A j \in MetPositions : i <= j
                   /\ ret.val = _RATING_DISPLAY[_RATING_ORDER[i]]

C3_Witness ==
    /\ RatedFullTable
    /\ MetPositions = {}
    /\ ret = Return("Poor")

Brackets == {"20-29", "30-39", "40-49", "50-59", "60-69"}

\* The bracket of the decade an age in 20..69 lies in.
DecadeBracket(age) ==
    CASE age \div 10 = 2 -> "20-29"
      [] age \div 10 = 3 -> "30-39"
      [] age \div 10 = 4 -> "40-49"
      [] age \div 10 = 5 -> "50-59"
      [] age \div 10 = 6 -> "60-69"

\* C4: get_age_bracket is total and clamping.  Every age, negative ones
\* included, gets one of the five brackets and nothing is raised; an age in
\* 20..69 gets the bracket of its decade, an age below 20 the bracket of age
\* 20 and an age above 69 the bracket of age 60.
C4_AgeBracketClamps ==
    (call.op = "get_age_bracket" /\ Done) =>
        /\ ret.kind = "return"
        /\ ret.val \in Brackets
        /\ ret.val = DecadeBracket(IF call.age < 20 THEN 20
                                   ELSE IF call.age > 69 THEN 60
                                   ELSE call.age)

C4_Witness ==
    /\ call.op = "get_age_bracket"
    /\ call.age > 69
    /\ ret = Return("60-69")

\* The norms directory of the call.
CallDir == NormsDirs[call.norms_dir]

SingleTested ==
    /\ call.op = "calculate_single_test"
    /\ Done

\* The norms file of the call has a row for the client's gender and for the
\* bracket of the client's age.
HasRow ==
    /\ call.test_id \in DOMAIN CallDir
    /\ call.gender \in DOMAIN CallDir[call.test_id].norms
    /\ get_age_bracket(call.age) \in
           DOMAIN CallDir[call.test_id].norms[call.gender]

OwnRow ==
    CallDir[call.test_id].norms[call.gender][get_age_bracket(call.age)]

OwnFlag ==
    LET file == CallDir[call.test_id]
    IN  IF "inverted" \in DOMAIN file THEN file.inverted ELSE FALSE

PushupAt35 ==
    /\ call.norms_dir = "complete"
    /\ call.test_id = "pushup"
    /\ call.value = R(25)
    /\ call.age = 35
    /\ call.gender = "male"

\* C5: calculate_single_test rates the value against the row selected by the
\* client's gender and get_age_bracket(age) with the test's own inverted
\* flag: the result carries that rating, the value as raw_value, that row and
\* that flag.  A 35-year-old male with 25 push-ups is rated against
\* {30, 22, 17, 12, 11} and gets "Very Good".
C5_RatedAgainstOwnRow ==
    (SingleTested /\ HasRow) =>
        /\ ret.kind = "return"
        /\ ret.val.rating = get_rating(call.value, OwnRow, OwnFlag).val
        /\ EqR(ret.val.raw_value, call.value)
        /\ ret.val.thresholds = OwnRow
        /\ ret.val.inverted = OwnFlag
        /\ PushupAt35 =>
              /\ ret.val.thresholds = Row(30, 22, 17, 12, 11)
              /\ ret.val.rating = "Very Good"

C5_Witness ==
    /\ SingleTested
    /\ PushupAt35
    /\ ret.kind = "return"
    /\ ret.val.rating = "Very Good"

AllTested ==
    /\ call.op = "calculate_all_tests"
    /\ Done

Submitted == call.input.tests

\* C6: calculate_all_tests is fail-fast.  When some submitted test_id has no
\* norms file, wherever it stands among the submitted tests, the call raises
\* a ValueError and returns no results.
C6_FailFast ==
    (AllTested /\ \E i \in DOMAIN Submitted :
                      Submitted[i][1] \notin DOMAIN CallDir) =>
        /\ ret.kind = "raise"
        /\ ret.val.type = "ValueError"

C6_Witness ==
    /\ AllTested
    /\ call.norms_dir = "complete"
    /\ Len(Submitted) = 2
    /\ Submitted[1][1] = "pushup"
    /\ Submitted[2][1] = "squat"
    /\ Truthy(call.input.client.height_cm)
    /\ Truthy(call.input.client.weight_kg)
    /\ ret.kind = "raise"

\* C7: a known test whose norms lack the client's gender, or the bracket of
\* the client's age under that gender, makes calculate_single_test raise a
\* ValueError, as an unknown test_id does; no result rated against another
\* row is returned.
C7_MissingRowRaises ==
    (SingleTested /\ ~HasRow) =>
        /\ ret.kind = "raise"
        /\ ret.val.type = "ValueError"

C7_Witness ==
    /\ SingleTested
    /\ call.test_id \in DOMAIN CallDir
    /\ call.gender \notin DOMAIN CallDir[call.test_id].norms
    /\ ret.kind = "raise"

\* What calculate_single_test gives for the i-th submitted test.
SubmittedResult(i) ==
    calculate_single_test(CallDir, Submitted[i][1], Submitted[i][2],
                          call.input.client.age, call.input.client.gender)

NoTestFails == \A i \in DOMAIN Submitted : SubmittedResult(i).kind = "return"

\* A measurement is present and nonzero.
Given(x) == x # None /\ ~EqR(x, R(0))

BmiDue ==
    Given(call.input.client.height_cm) /\ Given(call.input.client.weight_kg)

WhrDue ==
    Given(call.input.client.waist_cm) /\ Given(call.input.client.hip_cm)

BmiName == "Body Mass Index (BMI)"

WhrName == "Waist-to-Hip Ratio"

\* C8: shape of the result when no submitted test fails.  One result per
\* submitted test in submission order, then a BMI result exactly when height
\* and weight are present and nonzero, then a WHR result exactly when waist
\* and hip are present and nonzero; missing measurements raise nothing.
C8_ResultShape ==
    (AllTested /\ NoTestFails) =>
        /\ ret.kind = "return"
        /\ LET n == Len(Submitted)
               b == IF BmiDue THEN 1 ELSE 0
               w == IF WhrDue THEN 1 ELSE 0
           IN  /\ Len(ret.val) = n + b + w
               /\ \A i \in 1..n : ret.val[i] = SubmittedResult(i).val
               /\ BmiDue => ret.val[n + 1].test_name = BmiName
               /\ WhrDue => ret.val[n + b + 1].test_name = WhrName

C8_Witness ==
    /\ AllTested
    /\ Len(Submitted) = 2
    /\ BmiDue
    /\ WhrDue
    /\ ret.kind = "return"
    /\ Len(ret.val) = 4
    /\ ret.val[3].test_name = BmiName
    /\ ret.val[4].test_name = WhrName

\* C9: rounding before classification.  The rating of every BMI result and of
\* every WHR result is the classification of the rounded raw_value the result
\* stores.
C9_RatingOfRoundedValue ==
    (AllTested /\ ret.kind = "return") =>
        \A i \in DOMAIN ret.val :
            /\ ret.val[i].test_name = BmiName =>
                  ret.val[i].rating = classify_bmi(ret.val[i].raw_value)
            /\ ret.val[i].test_name = WhrName =>
                  ret.val[i].rating =
                      classify_whr(ret.val[i].raw_value, call.input.client.gender)

OtherGender(gender) == IF gender = "male" THEN "female" ELSE "male"

\* C10: classify_bmi partitions the BMI values: below 18.5 Poor, [18.5, 23.0)
\* Excellent, [23.0, 25.0) Very Good, [25.0, 27.5) Good, [27.5, 30.0) Fair,
\* 30.0 and above Poor; the BMI rating of a client does not depend on the
\* client's gender.
C10_BmiPartition ==
    /\ (call.op = "classify_bmi" /\ Done) =>
          LET b == call.bmi
              In(lo, hi) == Ge(b, lo) /\ Lt(b, hi)
          IN  /\ ret.kind = "return"
              /\ Lt(b, Rat(185, 10)) => ret.val = "Poor"
              /\ In(Rat(185, 10), R(23)) => ret.val = "Excellent"
              /\ In(R(23), R(25)) => ret.val = "Very Good"
              /\ In(R(25), Rat(275, 10)) => ret.val = "Good"
              /\ In(Rat(275, 10), R(30)) => ret.val = "Fair"
              /\ Ge(b, R(30)) => ret.val = "Poor"
    /\ (AllTested /\ ret.kind = "return" /\ BmiDue) =>
          LET client == call.input.client
              other  == [client EXCEPT !.gender = OtherGender(client.gender)]
          IN  ret.val[Len(Submitted) + 1].rating = _compute_bmi(other).rating

C10_Witness ==
    /\ call.op = "classify_bmi"
    /\ EqR(call.bmi, R(23))
    /\ ret = Return("Very Good")

\* The results of a calculate_all_tests call that returned, by test_name.
ResultsNamed(name) ==
    {i \in DOMAIN ret.val : ret.val[i].test_name = name}

\* The table the BMI result is said to carry.
BmiTable ==
    [excellent |-> R(23), very_good |-> R(25), good |-> Rat(275, 10),
     fair |-> R(30), poor |-> R(50)]

\* The value is exactly one of the four thresholds that separate two tiers.
AtCutoff(value, table) ==
    \E tier \in {"excellent", "very_good", "good", "fair"} :
        EqR(value, table[tier])

\* The unrounded BMI of the client of a calculate_all_tests call.
ClientBmi ==
    LET height_m == Div(call.input.client.height_cm, R(100))
    IN  Div(call.input.client.weight_kg, Mul(height_m, height_m))

\* C11 as stated: the BMI rating of every b >= 18.5 is what get_rating gives
\* for b on the table {23.0, 25.0, 27.5, 30.0, 50.0} with inverted = True, and
\* it is Poor for every b < 18.5; the BMI result carries that table.
C11_BmiIsGetRating ==
    /\ (call.op = "classify_bmi" /\ Done) =>
          IF Lt(call.bmi, Rat(185, 10))
          THEN ret = Return("Poor")
          ELSE ret = get_rating(call.bmi, BmiTable, TRUE)
    /\ (AllTested /\ ret.kind = "return") =>
          \A i \in ResultsNamed(BmiName) :
              /\ ret.val[i].thresholds = BmiTable
              /\ ret.val[i].inverted = TRUE
              /\ ret.val[i].rating =
                    IF Lt(ClientBmi, Rat(185, 10)) THEN "Poor"
                    ELSE get_rating(ClientBmi, BmiTable, TRUE).val

\* C11 amended: the BMI rating of b is Poor for b < 18.5; for b >= 18.5 that
\* is none of 23.0, 25.0, 27.5, 30.0 it is what get_rating gives for b on the
\* carried table with inverted = True; at each of these four values it is the
\* tier just below the one get_rating gives.
C11_BmiIsGetRatingOffCutoffs ==
    LET Agrees(b, rating) ==
            IF Lt(b, Rat(185, 10)) THEN rating = "Poor"
            ELSE IF AtCutoff(b, BmiTable)
            THEN Rank(rating) = Rank(get_rating(b, BmiTable, TRUE).val) - 1
            ELSE rating = get_rating(b, BmiTable, TRUE).val
    IN  /\ (call.op = "classify_bmi" /\ Done) =>
              /\ ret.kind = "return"
              /\ Agrees(call.bmi, ret.val)
        /\ (AllTested /\ ret.kind = "return") =>
              \A i \in ResultsNamed(BmiName) :
                  /\ ret.val[i].thresholds = BmiTable
                  /\ ret.val[i].inverted = TRUE
                  /\ Agrees(ClientBmi, ret.val[i].rating)

C11_Witness ==
    /\ call.op = "classify_bmi"
    /\ EqR(call.bmi, R(25))
    /\ ret = Return("Good")
    /\ get_rating(call.bmi, BmiTable, TRUE) = Return("Very Good")

\* The tables the WHR result is said to carry.
WhrTable(gender) ==
    IF gender = "male"
    THEN [excellent |-> Rat(85, 100), very_good |-> Rat(90, 100),
          good |-> Rat(95, 100), fair |-> R(1), poor |-> Rat(150, 100)]
    ELSE [excellent |-> Rat(75, 100), very_good |-> Rat(80, 100),
          good |-> Rat(85, 100), fair |-> Rat(90, 100), poor |-> Rat(150, 100)]

\* The unrounded waist-to-hip ratio of the client of a calculate_all_tests
\* call.
ClientWhr == Div(call.input.client.waist_cm, call.input.client.hip_cm)

\* C12 as stated: the WHR rating of every ratio w of a client of gender g is
\* what get_rating gives for w on the table of g (male {0.85, 0.90, 0.95,
\* 1.00, 1.50}, female {0.75, 0.80, 0.85, 0.90, 1.50}) with inverted = True;
\* the WHR result carries that table.
C12_WhrIsGetRating ==
    /\ (call.op = "classify_whr" /\ Done) =>
          ret = get_rating(call.whr, WhrTable(call.gender), TRUE)
    /\ (AllTested /\ ret.kind = "return") =>
          \A i \in ResultsNamed(WhrName) :
              LET table == WhrTable(call.input.client.gender)
              IN  /\ ret.val[i].thresholds = table
                  /\ ret.val[i].inverted = TRUE
                  /\ ret.val[i].rating = get_rating(ClientWhr, table, TRUE).val

\* C12 amended: the WHR rating of a ratio w that is none of the first four
\* thresholds of the table of g is what get_rating gives for w on that table
\* with inverted = True; at each of these four thresholds it is the tier just
\* below the one get_rating gives.  The WHR result carries the table of g.
C12_WhrIsGetRatingOffCutoffs ==
    LET Agrees(w, table, rating) ==
            IF AtCutoff(w, table)
            THEN Rank(rating) = Rank(get_rating(w, table, TRUE).val) - 1
            ELSE rating = get_rating(w, table, TRUE).val
    IN  /\ (call.op = "classify_whr" /\ Done) =>
              /\ ret.kind = "return"
              /\ Agrees(call.whr, WhrTable(call.gender), ret.val)
        /\ (AllTested /\ ret.kind = "return") =>
              \A i \in ResultsNamed(WhrName) :
                  LET table == WhrTable(call.input.client.gender)
                  IN  /\ ret.val[i].thresholds = table
                      /\ ret.val[i].inverted = TRUE
                      /\ Agrees(ClientWhr, table, ret.val[i].rating)

C12_Witness ==
    /\ call.op = "classify_whr"
    /\ call.gender = "female"
    /\ EqR(call.whr, Rat(80, 100))
    /\ ret = Return("Good")
    /\ get_rating(call.whr, WhrTable("female"), TRUE) = Return("Very Good")

\* The client of a calculate_all_tests call has waist 87 and hip 100.
Waist87Hip100 ==
    /\ AllTested
    /\ call.input.client.waist_cm = R(87)
    /\ call.input.client.hip_cm = R(100)

\* A classify_whr call on a ratio in [0.85, 0.90).
RatioIn85To90 ==
    /\ call.op = "classify_whr"
    /\ Ge(call.whr, Rat(85, 100))
    /\ Lt(call.whr, Rat(90, 100))

\* C13 as stated: with waist 87 and hip 100, and for any ratio in [0.85,
\* 0.90), the WHR rating is Very Good for a male client and Poor for a female
\* client.
C13_SameRatioMaleVeryGoodFemalePoor ==
    LET Claimed(gender) == IF gender = "male" THEN "Very Good" ELSE "Poor"
    IN  /\ (Waist87Hip100 /\ ret.kind = "return") =>
              \A i \in ResultsNamed(WhrName) :
                  ret.val[i].rating = Claimed(call.input.client.gender)
        /\ (RatioIn85To90 /\ Done) => ret = Return(Claimed(call.gender))

\* C13 amended: with waist 87 and hip 100, and for any ratio in [0.85, 0.90),
\* the WHR rating is Very Good for a male client and Fair for a female client;
\* the same ratio is rated differently by gender.
C13_SameRatioMaleVeryGoodFemaleFair ==
    LET Rated(gender) == IF gender = "male" THEN "Very Good" ELSE "Fair"
    IN  /\ (Waist87Hip100 /\ ret.kind = "return") =>
              /\ ResultsNamed(WhrName) # {}
              /\ \A i \in ResultsNamed(WhrName) :
                    ret.val[i].rating = Rated(call.input.client.gender)
        /\ (RatioIn85To90 /\ Done) => ret = Return(Rated(call.gender))

C13_Witness ==
    /\ Waist87Hip100
    /\ call.input.client.gender = "female"
    /\ ret.kind = "return"
    /\ \E i \in ResultsNamed(WhrName) :
          /\ EqR(ret.val[i].raw_value, Rat(87, 100))
          /\ ret.val[i].rating = "Fair"

\* A compute_progress call has returned.
Progressed == call.op = "compute_progress" /\ Done

\* Ordinal index of a rating: Poor 0 up to Excellent 4, and -1 for a string
\* that is none of the five labels.
Ordinal(rating) ==
    IF rating \in {"Poor", "Fair", "Good", "Very Good", "Excellent"}
    THEN Rank(rating)
    ELSE 0 - 1

\* C14: the direction of a delta is decided by the ordinal indices of the two
\* ratings alone: improved when the current index is higher, declined when it
\* is lower, unchanged when they are equal, whatever the raw values are.
C14_DirectionByRating ==
    Progressed =>
        /\ ret.kind = "return"
        /\ \A k \in DOMAIN ret.val :
              LET curr_idx == Ordinal(ret.val[k].current_rating)
                  prev_idx == Ordinal(ret.val[k].previous_rating)
              IN  /\ curr_idx > prev_idx => ret.val[k].direction = "improved"
                  /\ curr_idx < prev_idx => ret.val[k].direction = "declined"
                  /\ curr_idx = prev_idx => ret.val[k].direction = "unchanged"

C14_Witness ==
    /\ Progressed
    /\ \E k \in DOMAIN ret.val :
          /\ ret.val[k].previous_rating = "Good"
          /\ ret.val[k].current_rating = "Excellent"
          /\ Lt(ret.val[k].current_value, ret.val[k].previous_value)
          /\ ret.val[k].direction = "improved"

\* The positions of current whose test_name occurs in previous.
Matched ==
    {i \in DOMAIN call.current :
        \E j \in DOMAIN call.previous :
            call.previous[j].test_name = call.current[i].test_name}

\* C15: compute_progress returns one delta for each entry of current whose
\* test_name occurs in previous, in the order of current; the other entries
\* of current are skipped, and an empty current or previous gives the empty
\* list.
C15_OneDeltaPerMatch ==
    Progressed =>
        /\ ret.kind = "return"
        /\ Len(ret.val) = Cardinality(Matched)
        /\ \A i \in Matched :
              LET k == Cardinality({j \in Matched : j <= i})
              IN  /\ ret.val[k].test_name = call.current[i].test_name
                  /\ ret.val[k].current_value = call.current[i].raw_value
                  /\ ret.val[k].current_rating = call.current[i].rating
        /\ (call.current = <<>> \/ call.previous = <<>>) => ret.val = <<>>

C15_Witness ==
    /\ Progressed
    /\ Len(call.current) = 2
    /\ Matched = {2}
    /\ Len(ret.val) = 1
    /\ ret.val[1].test_name = call.current[2].test_name

\* C16: a rating that is none of the five labels counts as index -1: from
\* such a rating to a label is improved, from a label to such a rating is
\* declined, between two such ratings is unchanged; nothing is raised.
C16_UnknownRatingBelowAll ==
    Progressed =>
        /\ ret.kind = "return"
        /\ \A k \in DOMAIN ret.val :
              LET Known(rating) ==
                      rating \in {"Poor", "Fair", "Good", "Very Good", "Excellent"}
                  prev == ret.val[k].previous_rating
                  curr == ret.val[k].current_rating
              IN  /\ (~Known(prev) /\ Known(curr)) =>
                         ret.val[k].direction = "improved"
                  /\ (Known(prev) /\ ~Known(curr)) =>
                         ret.val[k].direction = "declined"
                  /\ (~Known(prev) /\ ~Known(curr)) =>
                         ret.val[k].direction = "unchanged"

C16_Witness ==
    /\ Progressed
    /\ \E k \in DOMAIN ret.val :
          /\ ret.val[k].previous_rating = "Unknown"
          /\ ret.val[k].current_rating = "N/A"
          /\ ret.val[k].direction = "unchanged"

\* The k-th delta pairs the i-th entry of current with an entry of previous
\* of the same test_name, values and ratings copied, and its delta is the
\* current value minus the previous value rounded to 2 decimals.
PairsCurrent(k, i) ==
    LET delta == ret.val[k]
        curr  == call.current[i]
    IN  /\ delta.test_name = curr.test_name
        /\ delta.current_value = curr.raw_value
        /\ delta.current_rating = curr.rating
        /\ \E j \in DOMAIN call.previous :
              /\ call.previous[j].test_name = curr.test_name
              /\ delta.previous_value = call.previous[j].raw_value
              /\ delta.previous_rating = call.previous[j].rating
        /\ EqR(delta.delta,
               Round(Sub(delta.current_value, delta.previous_value), 2))

\* C17 as stated: every delta pairs an entry of current with the entry of
\* previous of the same test_name, values and ratings copied from the two,
\* and delta is current_value minus previous_value rounded to 2 decimals,
\* positive when the raw value rose and negative when it fell.
C17_DeltaPairsAndSign ==
    Progressed =>
        \A k \in DOMAIN ret.val :
            /\ \E i \in DOMAIN call.current : PairsCurrent(k, i)
            /\ Gt(ret.val[k].current_value, ret.val[k].previous_value) =>
                  Gt(ret.val[k].delta, R(0))
            /\ Lt(ret.val[k].current_value, ret.val[k].previous_value) =>
                  Lt(ret.val[k].delta, R(0))

\* C17 amended: pairing, copies and rounding as stated; the delta is never
\* negative when the raw value rose and never positive when it fell, and it
\* is zero when the raw values differ by less than 0.005.
C17_DeltaPairsAndWeakSign ==
    Progressed =>
        /\ ret.kind = "return"
        /\ \A k \in DOMAIN ret.val :
              LET diff == Sub(ret.val[k].current_value, ret.val[k].previous_value)
              IN  /\ \E i \in DOMAIN call.current : PairsCurrent(k, i)
                  /\ Gt(diff, R(0)) => Ge(ret.val[k].delta, R(0))
                  /\ Lt(diff, R(0)) => Le(ret.val[k].delta, R(0))
                  /\ (Lt(diff, Rat(5, 1000)) /\ Gt(diff, Rat(0 - 5, 1000))) =>
                        EqR(ret.val[k].delta, R(0))

C17_Witness ==
    /\ Progressed
    /\ \E k \in DOMAIN ret.val :
          /\ EqR(ret.val[k].previous_value, R(25))
          /\ EqR(ret.val[k].current_value, Rat(25001, 1000))
          /\ EqR(ret.val[k].delta, R(0))

\* The measurement rows a returned add_measurement or db_service.upsert_client
\* call has written, each with the gender and height it was computed from.
RowsWritten ==
    IF call.op = "add_measurement" /\ ret.kind = "return"
    THEN {[row |-> ret.val, gender |-> call.client.gender,
           height_cm |-> call.client.height_cm]}
    ELSE IF call.op = "db_upsert_client" /\ ret.kind = "return"
    THEN {[row |-> ret.val.measurements[i], gender |-> call.profile.gender,
           height_cm |-> call.profile.height_cm] :
              i \in DOMAIN ret.val.measurements}
    ELSE {}

\* The measurements submitted with a call that logs a measurement.
SubmittedMeasurement ==
    IF call.op = "add_measurement" THEN call.measurement
    ELSE [weight_kg |-> call.profile.weight_kg, waist_cm |-> call.profile.waist_cm,
          hip_cm |-> call.profile.hip_cm, neck_cm |-> call.profile.neck_cm]

\* A measurement the body-fat formula needs is missing, or the argument of a
\* logarithm would not be positive.
NotComputable(w) ==
    LET m == w.row
    IN  \/ w.height_cm = None \/ m.waist_cm = None \/ m.neck_cm = None
        \/ w.gender = "female" /\ m.hip_cm = None
        \/ Le(w.height_cm, R(0))
        \/ w.gender = "male" /\ Le(Sub(m.waist_cm, m.neck_cm), R(0))
        \/ w.gender = "female" /\ Le(Sub(Add(m.waist_cm, m.hip_cm), m.neck_cm), R(0))

\* C18: body fat is best effort.  A call that logs a measurement raises
\* nothing for its measurements; the row holds no body_fat_pct when height,
\* waist or neck is missing, hip is missing for a female client, or the
\* argument of a logarithm would not be positive; body_fat_rating is present
\* exactly when body_fat_pct is; the submitted measurements are stored as
\* given.
C18_BodyFatBestEffort ==
    /\ (call.op = "add_measurement" /\ Done /\ call.client.found) =>
          ret.kind = "return"
    /\ (call.op = "db_upsert_client" /\ Done /\ call.coach_found) =>
          /\ ret.kind = "return"
          /\ (\E f \in {"weight_kg", "waist_cm", "hip_cm", "neck_cm"} :
                  Given(call.profile[f])) => Len(ret.val.measurements) = 1
    /\ \A w \in RowsWritten :
          /\ NotComputable(w) => w.row.body_fat_pct = None
          /\ w.row.body_fat_rating # NoneStr <=> w.row.body_fat_pct # None
          /\ w.row.body_fat_rating # NoneStr => w.row.body_fat_rating \in Ratings
          /\ \A f \in {"weight_kg", "waist_cm", "hip_cm", "neck_cm"} :
                w.row[f] = SubmittedMeasurement[f]

C18_Witness ==
    /\ call.op = "add_measurement"
    /\ ret.kind = "return"
    /\ call.client.gender = "female"
    /\ call.client.height_cm = R(175)
    /\ call.measurement.hip_cm = None
    /\ call.measurement.waist_cm = R(85)
    /\ call.measurement.neck_cm = R(38)
    /\ call.measurement.weight_kg = R(70)
    /\ ret.val.body_fat_pct = None
    /\ ret.val.body_fat_rating = NoneStr
    /\ ret.val.bmi # None

\* C19 as stated: in every measurement row written, fat_mass_kg and
\* lean_mass_kg are both present exactly when weight_kg is present and a
\* body-fat percentage was computed, both absent otherwise; when present,
\* fat_mass_kg is weight_kg * body_fat_pct / 100 rounded to 1 decimal and
\* lean_mass_kg is weight_kg - fat_mass_kg.
C19_FatLeanMass ==
    \A w \in RowsWritten :
        LET m == w.row
            both == m.weight_kg # None /\ m.body_fat_pct # None
        IN  /\ both => m.fat_mass_kg # None /\ m.lean_mass_kg # None
            /\ ~both => m.fat_mass_kg = None /\ m.lean_mass_kg = None
            /\ both =>
                  /\ EqR(m.fat_mass_kg,
                         Round(Div(Mul(m.weight_kg, m.body_fat_pct), R(100)), 1))
                  /\ EqR(m.lean_mass_kg, Sub(m.weight_kg, m.fat_mass_kg))

\* C19 amended: fat_mass_kg and lean_mass_kg are both present exactly when
\* weight_kg is present and nonzero and a body-fat percentage was computed,
\* both absent otherwise; when present, fat_mass_kg is weight_kg *
\* body_fat_pct / 100 rounded to 1 decimal and lean_mass_kg is weight_kg -
\* fat_mass_kg rounded to 1 decimal.
C19_FatLeanMassRounded ==
    \A w \in RowsWritten :
        LET m == w.row
            both == Given(m.weight_kg) /\ m.body_fat_pct # None
        IN  /\ both => m.fat_mass_kg # None /\ m.lean_mass_kg # None
            /\ ~both => m.fat_mass_kg = None /\ m.lean_mass_kg = None
            /\ both =>
                  /\ EqR(m.fat_mass_kg,
                         Round(Div(Mul(m.weight_kg, m.body_fat_pct), R(100)), 1))
                  /\ EqR(m.lean_mass_kg,
                         Round(Sub(m.weight_kg, m.fat_mass_kg), 1))

C19_Witness ==
    /\ call.op = "db_upsert_client"
    /\ ret.kind = "return"
    /\ \E i \in DOMAIN ret.val.measurements :
          LET m == ret.val.measurements[i]
          IN  /\ m.weight_kg = Rat(7024, 100)
              /\ m.body_fat_pct = Rat(153, 10)
              /\ EqR(m.fat_mass_kg, Rat(107, 10))
              /\ EqR(m.lean_mass_kg, Rat(595, 10))

\* The assessment_history of the client of the name in the store as it is
\* loaded from the file, empty when the store has no such client.
HistoryOf(file, name) ==
    LET records == load_clients(file)
        i       == FirstNamed(records, name)
    IN  IF i = 0 THEN <<>> ELSE records[i].assessment_history

\* The step is a save_assessment call that returned.
AssessmentSaved ==
    /\ clock' = clock + 1
    /\ call'.op = "save_assessment"
    /\ ret'.kind = "return"

\* C20: save_assessment appends without losing history.  At any time the
\* assessment_history of a client holds one snapshot per successful
\* save_assessment call for the client, newest first, each with the results
\* passed to its call, upsert_client calls in between or not; and a successful
\* call puts exactly one snapshot at index 0, with the results passed, and
\* leaves the earlier snapshots and the other clients' histories unchanged.
C20_HistoryAppended ==
    /\ [](\A name \in ClientNames :
             LET history == HistoryOf(clients_file, name)
             IN  /\ Len(history) = Len(saved[name])
                 /\ \A i \in DOMAIN history :
                       history[i].results = saved[name][i]
                 /\ \A i, j \in DOMAIN history :
                       i < j => history[i].assessed_at > history[j].assessed_at)
    /\ [][AssessmentSaved =>
             /\ HistoryOf(clients_file', call'.name) =
                    <<[results |-> call'.results, assessed_at |-> clock']>>
                        \o HistoryOf(clients_file, call'.name)
             /\ ret'.val.assessment_history = HistoryOf(clients_file', call'.name)
             /\ \A other \in ClientNames \ {call'.name} :
                    HistoryOf(clients_file', other) = HistoryOf(clients_file, other)
       ]_vars

\* Two assessments with different results saved for a client, the profile
\* updated after the second.
C20_Witness ==
    /\ call.op = "upsert_client"
    /\ LET history == HistoryOf(clients_file, call.profile.name)
       IN  /\ Len(history) = 2
           /\ history[1].results # history[2].results
           /\ history[2].results # <<>>
           /\ ret.kind = "return"
           /\ ret.val.assessment_history = history
           /\ ret.val.saved_at > history[1].assessed_at

\* The names of the clients the store holds, as load_clients gives them.
StoredNames(file) ==
    {load_clients(file)[i].name : i \in DOMAIN load_clients(file)}

\* The step is a call of the store function op.
StoreCall(op) == clock' = clock + 1 /\ call'.op = op

\* C21: save_assessment for a name that no stored client has, names compared
\* case-sensitively, raises a ValueError "not found" and writes nothing: the
\* file is as it was, so no client and no snapshot is created.
C21_UnknownClientRaises ==
    [][(StoreCall("save_assessment") /\ call'.name \notin StoredNames(clients_file)) =>
           /\ ret'.kind = "raise"
           /\ ret'.val.type = "ValueError"
           /\ ret'.val.msg = <<"Client not found", call'.name>>
           /\ clients_file' = clients_file
      ]_vars

\* save_assessment("ann") raised on a store that holds "Ann" only.
C21_Witness ==
    /\ call.op = "save_assessment"
    /\ call.name = "ann"
    /\ ret.kind = "raise"
    /\ StoredNames(clients_file) = {"Ann"}

\* A results list is present and not empty.
NonEmpty(last_assessment) ==
    last_assessment # Absent /\ last_assessment[1] # <<>>

\* C22: legacy migration.  Of every record of the file, load_clients returns
\* the validated record with: exactly one snapshot holding last_assessment,
\* timestamped assessed_at or else saved_at, when last_assessment is not
\* empty and the record has no history; its history unchanged when it has
\* one; an empty history when it has no assessment.  Nothing else of the
\* record changes, and migrating the returned record changes nothing.
C22_LegacyMigration ==
    (clients_file.exists /\ clients_file.parses) =>
        LET loaded == load_clients(clients_file)
        IN  /\ Len(loaded) = Len(clients_file.text)
            /\ \A i \in DOMAIN loaded :
                  LET stored  == model_validate(clients_file.text[i])
                      history == loaded[i].assessment_history
                  IN  /\ stored.assessment_history # <<>> =>
                            history = stored.assessment_history
                      /\ (stored.assessment_history = <<>>
                              /\ NonEmpty(stored.last_assessment)) =>
                            /\ Len(history) = 1
                            /\ history[1].results = stored.last_assessment[1]
                            /\ history[1].assessed_at =
                                  IF stored.assessed_at # Absent
                                  THEN stored.assessed_at[1]
                                  ELSE stored.saved_at
                      /\ (stored.assessment_history = <<>>
                              /\ ~NonEmpty(stored.last_assessment)) =>
                            history = <<>>
                      /\ [loaded[i] EXCEPT !.assessment_history = <<>>] =
                            [stored EXCEPT !.assessment_history = <<>>]
                      /\ Migrate(loaded[i]) = loaded[i]
            /\ load_clients(_write_clients(loaded)) = loaded

\* load_clients returned an undated legacy record with one snapshot, dated
\* as the record was saved.
C22_Witness ==
    /\ call.op = "load_clients"
    /\ ret.kind = "return"
    /\ clients_file.parses
    /\ \E i \in DOMAIN clients_file.text :
          /\ "assessment_history" \notin DOMAIN clients_file.text[i]
          /\ Field(clients_file.text[i], "assessed_at", Absent) = Absent
          /\ Len(ret.val[i].assessment_history) = 1
          /\ ret.val[i].assessment_history[1].assessed_at = ret.val[i].saved_at
          /\ ret.val[i].assessment_history[1].results # <<>>

\* C23: upsert_client replaces in place.  With the name of a stored client
\* the call keeps the number of records, the position of the record, its
\* last_assessment, assessed_at and assessment_history and every other
\* record, and sets the profile passed and a new saved_at; with a new name
\* it appends one record without assessment; and no two records of the store
\* ever share a name.
C23_UpsertInPlace ==
    /\ [](\A i, j \in DOMAIN load_clients(clients_file) :
             load_clients(clients_file)[i].name = load_clients(clients_file)[j].name
                 => i = j)
    /\ [][StoreCall("upsert_client") =>
             LET before == load_clients(clients_file)
                 after  == load_clients(clients_file')
                 i      == FirstNamed(before, call'.profile.name)
             IN  IF i # 0
                 THEN /\ Len(after) = Len(before)
                      /\ \A j \in DOMAIN before : j # i => after[j] = before[j]
                      /\ after[i] = [before[i] EXCEPT !.profile = call'.profile,
                                                      !.saved_at = clock']
                      /\ ret' = Return(after[i])
                 ELSE /\ after = Append(before,
                                   ClientRecord(call'.profile.name, call'.profile, clock'))
                      /\ ret' = Return(after[Len(after)])
       ]_vars

\* The first of two clients, which has an assessment, has just been given
\* another profile.
C23_Witness ==
    LET records == load_clients(clients_file)
    IN  /\ call.op = "upsert_client"
        /\ Len(records) = 2
        /\ records[1].name = call.profile.name
        /\ records[1].profile = call.profile
        /\ records[1].profile.age = 31
        /\ records[1].saved_at = clock
        /\ records[1].saved_at > records[2].saved_at
        /\ records[1].assessment_history # <<>>

\* C29: last_assessment and assessed_at agree with the history.  In a store
\* that started without a file, every stored record has last_assessment and
\* assessed_at absent exactly when its assessment_history is empty, and
\* otherwise they are the results and the time of the first snapshot.
C29_LastAssessmentIsNewest ==
    \A i \in DOMAIN load_clients(clients_file) :
        LET record  == load_clients(clients_file)[i]
            history == record.assessment_history
        IN  IF history = <<>>
            THEN /\ record.last_assessment = Absent
                 /\ record.assessed_at = Absent
            ELSE /\ record.last_assessment = Some(history[1].results)
                 /\ record.assessed_at = Some(history[1].assessed_at)

\* A client assessed twice, the second time with an empty list of results,
\* another client never assessed.
C29_Witness ==
    LET records == load_clients(clients_file)
    IN  /\ Len(records) = 2
        /\ Len(records[1].assessment_history) = 2
        /\ records[1].last_assessment = Some(<<>>)
        /\ records[1].assessment_history[2].results # <<>>
        /\ records[2].assessment_history = <<>>

\* C24: load_clients returns the clients most recently saved first: the list
\* it reads from the store is sorted by saved_at, descending, after any
\* sequence of store calls, and that is the list a load_clients call returns.
C24_SortedBySavedAt ==
    /\ \A i, j \in DOMAIN load_clients(clients_file) :
          i < j => load_clients(clients_file)[i].saved_at
                       >= load_clients(clients_file)[j].saved_at
    /\ (call.op = "load_clients" /\ ret.kind = "return") =>
          \A i, j \in DOMAIN ret.val : i < j => ret.val[i].saved_at >= ret.val[j].saved_at

\* C30: every ProgressDelta carries the unit of its test.  Each delta that
\* compute_progress returns has the unit of a current result of its test
\* name and rating, which is the unit the assessment page's
\* _compute_progress_deltas puts in its delta of that test.
C30_DeltaCarriesUnit ==
    (call.op = "compute_progress" /\ ret.kind = "return") =>
        LET page == _compute_progress_deltas(call.current, call.previous)
        IN  \A k \in DOMAIN ret.val :
                /\ \E i \in DOMAIN call.current :
                      /\ call.current[i].test_name = ret.val[k].test_name
                      /\ call.current[i].rating = ret.val[k].current_rating
                      /\ call.current[i].unit = ret.val[k].unit
                /\ ret.val[k].test_name \in DOMAIN page
                /\ ret.val[k].unit = page[ret.val[k].test_name].unit

\* The profile and the history stored for a client.
ProfileOf(file, name) ==
    load_clients(file)[FirstNamed(load_clients(file), name)].profile

\* C28: no lost update under concurrency.  When two calls among
\* save_assessment and upsert_client have both finished, however their
\* load_clients and _write_clients steps were interleaved, the store holds
\* the snapshot of every save_assessment call, and the profile of an
\* upsert_client call unless the other call was an upsert_client of the same
\* client.
C28_NoLostUpdate ==
    (\A t \in Tasks : tasks[t].pc = "done") =>
        \A t \in Tasks :
            LET mine   == tasks[t]
                theirs == tasks[3 - t]
            IN  /\ mine.call.op = "save_assessment" =>
                      \E i \in DOMAIN HistoryOf(clients_file, mine.call.name) :
                          HistoryOf(clients_file, mine.call.name)[i] =
                              [results |-> mine.call.results, assessed_at |-> mine.now]
                /\ (mine.call.op = "upsert_client"
                        /\ ~(theirs.call.op = "upsert_client"
                                 /\ theirs.call.name = mine.call.name)) =>
                      ProfileOf(clients_file, mine.call.name) = mine.call.profile

\* The rows of a coach: the clients, and their measurements and assessments.
RowsOf(d, coach_username) ==
    LET coach   == get_coach_by_username(d, coach_username)
        clients == IF coach = Absent THEN {}
                   ELSE {c \in d.clients : c.coach_id = coach[1].id}
    IN  [clients |-> clients,
         measurements |-> {m \in d.measurements :
                              \E c \in clients : m.client_id = c.id},
         assessments |-> {a \in d.assessments :
                             \E c \in clients : a.client_id = c.id}]

\* What a coach can read, and the rows of the coach.
CoachView(d, coach_username) ==
    [clients |-> list_clients_for_coach(d, coach_username),
     history |-> [name \in DbNames |-> get_assessment_history(d, coach_username, name)],
     rows |-> RowsOf(d, coach_username)]

\* The step is a call of the client API.
CoachCall ==
    /\ clock' = clock + 1
    /\ call'.op \in {"list_clients", "get_client_history", "upsert_client",
                     "delete_client", "save_assessment", "add_measurement"}

\* C25: clients are isolated per coach.  A call made with one coach leaves
\* what every other coach can list and read as history, and every row of the
\* other coaches' clients, measurements and assessments, as they were; the
\* records listed for a coach carry the coach's name and are those of the
\* coach's rows; and every measurement and assessment belongs to a client.
C25_CoachIsolation ==
    /\ [](/\ \A coach \in CoachNames :
                LET listed == list_clients_for_coach(db, coach)
                IN  /\ Len(listed) = Cardinality(RowsOf(db, coach).clients)
                    /\ \A i \in DOMAIN listed :
                          /\ listed[i].coach_username = coach
                          /\ \E c \in RowsOf(db, coach).clients :
                                /\ c.name = listed[i].name
                                /\ Snapshots(db, c) = listed[i].assessment_history
          /\ \A m \in db.measurements : \E c \in db.clients : c.id = m.client_id
          /\ \A a \in db.assessments : \E c \in db.clients : c.id = a.client_id)
    /\ [][CoachCall =>
             \A other \in CoachNames \ {call'.coach} :
                 CoachView(db', other) = CoachView(db, other)]_vars

\* Both coaches had a client Ann; bob has deleted his, and admin's is listed
\* with its assessments and its weight.
C25_Witness ==
    /\ call.op = "delete_client"
    /\ call.coach = "bob"
    /\ ret = Return(TRUE)
    /\ list_clients_for_coach(db, "bob") = <<>>
    /\ Len(list_clients_for_coach(db, "admin")) = 1
    /\ Len(list_clients_for_coach(db, "admin")[1].assessment_history) = 2
    /\ list_clients_for_coach(db, "admin")[1].profile.weight_kg = R(70)

\* C26: GET /clients/{name}/history answers 404 exactly when the coach has no
\* client of the name, and otherwise returns the history of the client,
\* newest first, which is empty for a client without assessment.
C26_NotFoundIffNoClient ==
    call.op = "get_client_history" =>
        IF _get_client_row(db, call.coach, call.name) = Absent
        THEN ret = Raise(HTTPException(404, <<"Client not found", call.name>>))
        ELSE ret = Return(get_assessment_history(db, call.coach, call.name))

\* C27: run_migration_if_needed is idempotent.  Once a start has completed
\* the coaches table is never empty, a later run returns at its first test
\* and leaves the database as it is, and no coach and no client is in the
\* database twice.
C27_MigrationIdempotent ==
    /\ [](/\ Serving => db.coaches # {}
          /\ \A c1, c2 \in db.coaches : c1.username = c2.username => c1 = c2
          /\ UniqueClients(db))
    /\ [][(Serving /\ clock' = clock + 1 /\ call'.op = "run_migration_if_needed") =>
             /\ db' = db
             /\ ret' = Return("skipped")]_vars

\* A second start, after a first one that migrated clients, a measurement and
\* assessments.
C27_Witness ==
    /\ call.op = "run_migration_if_needed"
    /\ ret = Return("skipped")
    /\ clock = 2
    /\ Cardinality(db.clients) = 2
    /\ db.measurements # {}
    /\ Cardinality(db.assessments) = 2

====
